---- MODULE Spec2Model ----
(***************************************************************************)
(* Model of the wolfpack synchronisation core: vector clocks, the event    *)
(* log, the state index and its materialiser, the diff engine, the write   *)
(* queue and the sync engine.                                              *)
(***************************************************************************)
EXTENDS Integers, Sequences, FiniteSets, TLC

\* ------------------------------------------------------------------------
\* Bounds of the model
\* ------------------------------------------------------------------------
MaxWrites == 2
MaxListLen == 2

\* ------------------------------------------------------------------------
\* Small helpers on partial maps (HashMap / keyed SQL tables)
\* ------------------------------------------------------------------------
EmptyMap == <<>>

Upsert(m, k, v) == [x \in (DOMAIN m) \cup {k} |-> IF x = k THEN v ELSE m[x]]

Delete(m, k) == [x \in (DOMAIN m) \ {k} |-> m[x]]

Max2(a, b) == IF a >= b THEN a ELSE b

None == <<>>

Some(x) == <<x>>

\* ------------------------------------------------------------------------
\* events/clock.rs : VectorClock(HashMap<String, u64>)
\* ------------------------------------------------------------------------
VectorClock_new == EmptyMap

VectorClock_get(c, device) == IF device \in DOMAIN c THEN c[device] ELSE 0

\* an increment that raises every entry of the clock
VectorClock_increment_all(c, device) ==
    [d \in (DOMAIN c) \cup {device} |-> VectorClock_get(c, d) + 1]

VectorClock_increment(c, device) == Upsert(c, device, VectorClock_get(c, device) + 1)

VectorClock_set(c, device, value) == Upsert(c, device, value)

\* a merge that forgets the entries of other
VectorClock_merge_keepself(self, other) == self

\* a merge that takes the smaller value of an entry both clocks have
VectorClock_merge_min(self, other) ==
    [d \in (DOMAIN self) \cup (DOMAIN other) |->
        IF d \in DOMAIN other
        THEN IF d \in DOMAIN self /\ self[d] < other[d] THEN self[d] ELSE other[d]
        ELSE self[d]]

\* a merge that only raises the entries self already has
VectorClock_merge_shared(self, other) ==
    [d \in DOMAIN self |-> Max2(self[d], VectorClock_get(other, d))]

VectorClock_merge(self, other) ==
    [d \in (DOMAIN self) \cup (DOMAIN other) |->
        IF d \in DOMAIN other
        THEN Max2(VectorClock_get(self, d), other[d])
        ELSE self[d]]

\* std::cmp::Ordering
Less == "Less"

Equal == "Equal"

Greater == "Greater"

\* a compare that only walks the keys of self
VectorClock_compare_selfkeys(self, other) ==
    LET less == \E key \in DOMAIN self :
                    VectorClock_get(self, key) < VectorClock_get(other, key)
        greater == \E key \in DOMAIN self :
                    VectorClock_get(self, key) > VectorClock_get(other, key)
    IN  IF less /\ greater THEN None
        ELSE IF less THEN Some(Less)
        ELSE IF greater THEN Some(Greater)
        ELSE Some(Equal)

\* a compare that stops at the first smaller entry
VectorClock_compare_lessfirst(self, other) ==
    LET all_keys == (DOMAIN self) \cup (DOMAIN other)
        less == \E key \in all_keys :
                    VectorClock_get(self, key) < VectorClock_get(other, key)
        greater == \E key \in all_keys :
                    VectorClock_get(self, key) > VectorClock_get(other, key)
    IN  IF less THEN Some(Less)
        ELSE IF greater THEN Some(Greater)
        ELSE Some(Equal)

\* less and greater after the loop over all_keys; the early return inside
\* the loop gives None exactly when both end up true
VectorClock_compare(self, other) ==
    LET all_keys == (DOMAIN self) \cup (DOMAIN other)
        less == \E key \in all_keys :
                    VectorClock_get(self, key) < VectorClock_get(other, key)
        greater == \E key \in all_keys :
                    VectorClock_get(self, key) > VectorClock_get(other, key)
    IN  IF less /\ greater THEN None
        ELSE IF less THEN Some(Less)
        ELSE IF greater THEN Some(Greater)
        ELSE Some(Equal)

VectorClock_concurrent_with(self, other) == VectorClock_compare(self, other) = None

\* ------------------------------------------------------------------------
\* events/types.rs : Event, PrefValue, EventEnvelope
\* Every event is a record over the same fields; the fields a variant does
\* not have hold the defaults of NoFields.
\* ------------------------------------------------------------------------
PrefBool(b) == [t |-> "Bool", b |-> b, i |-> 0, s |-> ""]

PrefInt(i) == [t |-> "Int", b |-> FALSE, i |-> i, s |-> ""]

PrefString(s) == [t |-> "String", b |-> FALSE, i |-> 0, s |-> s]

NoFields ==
    [type |-> "", id |-> "", name |-> None, url |-> None, version |-> "",
     source |-> "", xpi_data |-> "", color |-> None, icon |-> None,
     handler |-> "", value |-> PrefBool(FALSE), to_device |-> "",
     title |-> None, event_id |-> 0]

ExtensionAdded(id, name, url) ==
    [NoFields EXCEPT !.type = "ExtensionAdded", !.id = id, !.name = Some(name), !.url = url]

ExtensionRemoved(id) == [NoFields EXCEPT !.type = "ExtensionRemoved", !.id = id]

ExtensionInstalled(id, name, version, source, xpi_data) ==
    [NoFields EXCEPT !.type = "ExtensionInstalled", !.id = id, !.name = Some(name),
                     !.version = version, !.source = source, !.xpi_data = xpi_data]

ExtensionUninstalled(id) == [NoFields EXCEPT !.type = "ExtensionUninstalled", !.id = id]

ContainerAdded(id, name, color, icon) ==
    [NoFields EXCEPT !.type = "ContainerAdded", !.id = id, !.name = Some(name),
                     !.color = Some(color), !.icon = Some(icon)]

ContainerRemoved(id) == [NoFields EXCEPT !.type = "ContainerRemoved", !.id = id]

ContainerUpdated(id, name, color, icon) ==
    [NoFields EXCEPT !.type = "ContainerUpdated", !.id = id, !.name = name,
                     !.color = color, !.icon = icon]

HandlerSet(protocol, handler) ==
    [NoFields EXCEPT !.type = "HandlerSet", !.id = protocol, !.handler = handler]

HandlerRemoved(protocol) == [NoFields EXCEPT !.type = "HandlerRemoved", !.id = protocol]

SearchEngineAdded(id, name, url) ==
    [NoFields EXCEPT !.type = "SearchEngineAdded", !.id = id, !.name = Some(name),
                     !.url = Some(url)]

SearchEngineRemoved(id) == [NoFields EXCEPT !.type = "SearchEngineRemoved", !.id = id]

SearchEngineDefault(id) == [NoFields EXCEPT !.type = "SearchEngineDefault", !.id = id]

PrefSet(key, value) == [NoFields EXCEPT !.type = "PrefSet", !.id = key, !.value = value]

PrefRemoved(key) == [NoFields EXCEPT !.type = "PrefRemoved", !.id = key]

TabSent(to_device, url, title) ==
    [NoFields EXCEPT !.type = "TabSent", !.to_device = to_device, !.url = Some(url),
                     !.title = title]

TabReceived(event_id) == [NoFields EXCEPT !.type = "TabReceived", !.event_id = event_id]

\* Event::entity_id : None for the two tab variants, Some(id/protocol/key) otherwise
entity_id(event) ==
    IF event.type \in {"TabSent", "TabReceived"} THEN None ELSE Some(event.id)

\* EventEnvelope::new : a fresh uuid, the current time, the device and a clock copy
EventEnvelope_new(uuid_, time, device, clock_, event) ==
    [id |-> uuid_, timestamp |-> time, device |-> device, clock |-> clock_, event |-> event]

\* ------------------------------------------------------------------------
\* state/db.rs : StateDb, one partial map per table
\* (the columns added_at / installed_at are written and never read: omitted)
\* ------------------------------------------------------------------------
StateDb_open ==
    [applied_events |-> EmptyMap, extensions |-> EmptyMap, extension_xpi |-> EmptyMap,
     containers |-> EmptyMap, handlers |-> EmptyMap, search_engines |-> EmptyMap,
     prefs |-> EmptyMap, pending_tabs |-> EmptyMap, vector_clock |-> EmptyMap]

is_event_applied(db, event_id) == event_id \in DOMAIN db.applied_events

\* a mark that records nothing
mark_event_applied_forgets(db, event_id, device, timestamp) == db

\* INSERT OR IGNORE
mark_event_applied(db, event_id, device, timestamp) ==
    IF event_id \in DOMAIN db.applied_events
    THEN db
    ELSE [db EXCEPT !.applied_events =
            Upsert(@, event_id, [device |-> device, timestamp |-> timestamp])]

add_extension(db, id, name, url) ==
    [db EXCEPT !.extensions = Upsert(@, id, [name |-> name, url |-> url])]

remove_extension(db, id) == [db EXCEPT !.extensions = Delete(@, id)]

store_extension_xpi(db, id, version, source, xpi_data) ==
    [db EXCEPT !.extension_xpi =
        Upsert(@, id, [version |-> version, source |-> source, xpi_data |-> xpi_data])]

remove_extension_xpi(db, id) == [db EXCEPT !.extension_xpi = Delete(@, id)]

add_container(db, id, name, color, icon) ==
    [db EXCEPT !.containers = Upsert(@, id, [name |-> name, color |-> color, icon |-> icon])]

remove_container(db, id) == [db EXCEPT !.containers = Delete(@, id)]

\* a set_handler that replaces the whole table
set_handler_only(db, protocol, handler) ==
    [db EXCEPT !.handlers = Upsert(EmptyMap, protocol, handler)]

set_handler(db, protocol, handler) == [db EXCEPT !.handlers = Upsert(@, protocol, handler)]

remove_handler(db, protocol) == [db EXCEPT !.handlers = Delete(@, protocol)]

set_pref(db, key, value, value_type) ==
    [db EXCEPT !.prefs = Upsert(@, key, [value |-> value, value_type |-> value_type])]

remove_pref(db, key) == [db EXCEPT !.prefs = Delete(@, key)]

\* INSERT OR REPLACE ... is_default = 0
add_search_engine(db, id, name, url) ==
    [db EXCEPT !.search_engines =
        Upsert(@, id, [name |-> name, url |-> url, is_default |-> FALSE])]

remove_search_engine(db, id) == [db EXCEPT !.search_engines = Delete(@, id)]

\* only the second UPDATE: the flags of the other rows stay
set_default_keep_others(db, id) ==
    [db EXCEPT !.search_engines =
        [k \in DOMAIN db.search_engines |->
            [name |-> db.search_engines[k].name, url |-> db.search_engines[k].url,
             is_default |-> (k = id \/ db.search_engines[k].is_default)]]]

\* UPDATE ... SET is_default = 0 ; UPDATE ... SET is_default = 1 WHERE id = ?
set_default_search_engine(db, id) ==
    [db EXCEPT !.search_engines =
        [k \in DOMAIN db.search_engines |->
            [name |-> db.search_engines[k].name, url |-> db.search_engines[k].url,
             is_default |-> (k = id)]]]

\* an insert that stores nothing
add_pending_tab_none(db, id, url, title, sent_by, sent_at) == db

add_pending_tab(db, id, url, title, sent_by, sent_at) ==
    [db EXCEPT !.pending_tabs =
        Upsert(@, id, [url |-> url, title |-> title, sent_by |-> sent_by, sent_at |-> sent_at])]

remove_pending_tab(db, id) == [db EXCEPT !.pending_tabs = Delete(@, id)]

\* DELETE FROM vector_clock ; INSERT each entry
save_vector_clock(db, clock_) == [db EXCEPT !.vector_clock = clock_]

load_vector_clock(db) == db.vector_clock

\* ------------------------------------------------------------------------
\* state/materialize.rs
\* ------------------------------------------------------------------------
\* i64::to_string / str::parse::<i64> on the integers the model uses
PrefInts == {-1, 0, 7}

i64_to_string(i) == CASE i = -1 -> "-1" [] i = 0 -> "0" [] i = 7 -> "7"

bool_to_string(b) == IF b THEN "true" ELSE "false"

\* value.parse().unwrap_or(0)
parse_i64_or_0(s) == CASE s = "-1" -> -1 [] s = "7" -> 7 [] OTHER -> 0

\* value.parse().unwrap_or(false)
parse_bool_or_false(s) == s = "true"

\* a conversion that stores every value as a string
pref_to_storage_untyped(value) ==
    [value |-> IF value.t = "Bool" THEN bool_to_string(value.b)
               ELSE IF value.t = "Int" THEN i64_to_string(value.i) ELSE value.s,
     value_type |-> "string"]

pref_to_storage(value) ==
    CASE value.t = "Bool" -> [value |-> bool_to_string(value.b), value_type |-> "bool"]
      [] value.t = "Int" -> [value |-> i64_to_string(value.i), value_type |-> "int"]
      [] OTHER -> [value |-> value.s, value_type |-> "string"]

\* fresh: the uuid drawn by Uuid::now_v7(), now: chrono::Utc::now()
apply_event(db, event, this_device, fresh, now_) ==
    CASE event.type = "ExtensionAdded" ->
            add_extension(db, event.id, event.name[1], event.url)
      [] event.type = "ExtensionRemoved" -> remove_extension(db, event.id)
      [] event.type = "ExtensionInstalled" ->
            store_extension_xpi(add_extension(db, event.id, event.name[1], None),
                                event.id, event.version, event.source, event.xpi_data)
      [] event.type = "ExtensionUninstalled" ->
            remove_extension_xpi(remove_extension(db, event.id), event.id)
      [] event.type = "ContainerAdded" ->
            add_container(db, event.id, event.name[1], event.color[1], event.icon[1])
      [] event.type = "ContainerRemoved" -> remove_container(db, event.id)
      [] event.type = "ContainerUpdated" ->
            IF event.name # None /\ event.color # None /\ event.icon # None
            THEN add_container(db, event.id, event.name[1], event.color[1], event.icon[1])
            ELSE db
      [] event.type = "HandlerSet" -> set_handler(db, event.id, event.handler)
      [] event.type = "HandlerRemoved" -> remove_handler(db, event.id)
      [] event.type = "SearchEngineAdded" ->
            add_search_engine(db, event.id, event.name[1], event.url[1])
      [] event.type = "SearchEngineRemoved" -> remove_search_engine(db, event.id)
      [] event.type = "SearchEngineDefault" -> set_default_search_engine(db, event.id)
      [] event.type = "PrefSet" ->
            LET st == pref_to_storage(event.value)
            IN set_pref(db, event.id, st.value, st.value_type)
      [] event.type = "PrefRemoved" -> remove_pref(db, event.id)
      [] event.type = "TabSent" ->
            IF event.to_device = this_device
            THEN add_pending_tab(db, fresh, event.url[1], event.title, event.to_device, now_)
            ELSE db
      [] event.type = "TabReceived" -> remove_pending_tab(db, event.event_id)
      [] OTHER -> db

\* The loop of materialize_events from position i on.  uuid_ is the number of
\* uuids drawn so far; apply_event draws one only for a TabSent addressed to
\* this device.
draws_uuid(event, this_device) == event.type = "TabSent" /\ event.to_device = this_device

RECURSIVE materialize_from(_, _, _, _, _, _, _)
materialize_from(db, events, i, applied, this_device, uuid_, now_) ==
    IF i > Len(events)
    THEN [db |-> db, applied |-> applied, uuid |-> uuid_]
    ELSE LET envelope == events[i] IN
         IF is_event_applied(db, envelope.id)
         THEN materialize_from(db, events, i + 1, applied, this_device, uuid_, now_)
         ELSE materialize_from(
                mark_event_applied(
                    apply_event(db, envelope.event, this_device, uuid_ + 1, now_),
                    envelope.id, envelope.device, envelope.timestamp),
                events, i + 1, applied + 1, this_device,
                IF draws_uuid(envelope.event, this_device) THEN uuid_ + 1 ELSE uuid_,
                now_)

materialize_events(db, events, this_device, uuid_, now_) ==
    materialize_from(db, events, 1, 0, this_device, uuid_, now_)

\* ------------------------------------------------------------------------
\* The values the model draws events from
\* ------------------------------------------------------------------------
Dev == {"A", "B"}

ExtIds == {"ub@x", "np@y"}

ContainerIds == {"1", "2"}

Protocols == {"mailto", "irc"}

HandlerUrls == {"urlA", "urlB"}

SearchIds == {"ddg", "brave"}

PrefKeys == {"k1", "k2"}

PrefValues == {PrefBool(TRUE), PrefInt(7), PrefString("true")}

TabIds == 1..2

EventPool ==
    {ExtensionAdded(x, "U", None) : x \in ExtIds}
    \cup {ExtensionRemoved(x) : x \in ExtIds}
    \cup {ExtensionInstalled(x, "U", "1.0", "amo", "xpi1") : x \in ExtIds}
    \cup {ExtensionUninstalled(x) : x \in ExtIds}
    \cup {ContainerAdded(c, "Work", "blue", "briefcase") : c \in ContainerIds}
    \cup {ContainerRemoved(c) : c \in ContainerIds}
    \cup {ContainerUpdated(c, Some("Home"), Some("red"), Some("tree")) : c \in ContainerIds}
    \cup {ContainerUpdated("1", Some("Home"), None, None)}
    \cup {HandlerSet(p, h) : p \in Protocols, h \in HandlerUrls}
    \cup {HandlerRemoved(p) : p \in Protocols}
    \cup {SearchEngineAdded(e, "Engine", "https://s") : e \in SearchIds}
    \cup {SearchEngineRemoved(e) : e \in SearchIds}
    \cup {SearchEngineDefault(e) : e \in SearchIds}
    \cup {PrefSet(k, v) : k \in PrefKeys, v \in {PrefBool(TRUE), PrefInt(7)}}
    \cup {PrefRemoved(k) : k \in PrefKeys}
    \cup {TabSent(d, "https://t", None) : d \in Dev}
    \cup {TabReceived(t) : t \in TabIds}

\* ------------------------------------------------------------------------
\* crypto/keypair.rs, crypto/cipher.rs
\* X25519 is modelled by Diffie-Hellman in the multiplicative group modulo
\* the prime DhPrime: public = g^secret, shared = their_public^secret, with
\* byte strings shortened to KeyBits bits.
\* ------------------------------------------------------------------------
DhPrime == 251

DhBase == 6

KeyBits == 8

RECURSIVE ModExp(_, _, _)
ModExp(b, e, m) == IF e = 0 THEN 1 ELSE (b * ModExp(b, e - 1, m)) % m

RECURSIVE XorBits(_, _, _)
XorBits(a, b, n) ==
    IF n = 0 THEN 0
    ELSE (((a % 2) + (b % 2)) % 2) + 2 * XorBits(a \div 2, b \div 2, n - 1)

Xor(a, b) == XorBits(a, b, KeyBits)

\* X25519Public::from(&secret)
public_key(secret) == ModExp(DhBase, secret, DhPrime)

\* KeyPair::derive_shared_secret
derive_shared_secret(secret, their_public) == ModExp(their_public, secret, DhPrime)

\* derive_nonce_aes / derive_nonce_xchacha : hash prefix of the device id
\* followed by the big-endian counter
derive_nonce(device_id, counter) == <<device_id, counter>>

\* ------------------------------------------------------------------------
\* events/log.rs : EventLog
\* ------------------------------------------------------------------------
RECURSIVE xor_known(_, _, _)
xor_known(secret, known_devices, i) ==
    IF i > Len(known_devices) THEN 0
    ELSE Xor(derive_shared_secret(secret, known_devices[i][2]),
             xor_known(secret, known_devices, i + 1))

derive_group_secret(secret, known_devices) ==
    IF known_devices = <<>>
    THEN derive_shared_secret(secret, public_key(secret))
    ELSE xor_known(secret, known_devices, 1)

\* An event file in a sync directory: <device>/<num>.evt sealed under key with
\* the nonce of (device, counter)
EventFile_new(device, num, counter, key, envelopes) ==
    [device |-> device, num |-> num, counter |-> counter,
     nonce |-> derive_nonce(device, counter), key |-> key, envelopes |-> envelopes]

DeviceFiles(dir, device) == {f \in dir : f.device = device}

SetMax(S) == CHOOSE x \in S : \A y \in S : y <= x

\* a file of a device directory whose name is not <number>.evt
OtherFile(device, name) == [device |-> device, name |-> name]

\* name.strip_suffix(".evt") and parse::<u32>() both succeed
Numbered(f) == "num" \in DOMAIN f

\* one more than the number of numbered files
next_event_number_count(dir, device) ==
    Cardinality({f \in DeviceFiles(dir, device) : Numbered(f)}) + 1

next_event_number(dir, device) ==
    LET nums == {f.num : f \in {g \in DeviceFiles(dir, device) : Numbered(g)}}
    IN  IF nums = {} THEN 1 ELSE SetMax(nums) + 1

\* the files of one device directory in file-name order ("{:04}.evt", so the
\* lexicographic order is the numeric one for the numbers the model reaches)
RECURSIVE FilesInOrder(_)
FilesInOrder(fs) ==
    IF fs = {} THEN <<>>
    ELSE LET f == CHOOSE g \in fs : \A h \in fs : g.num <= h.num
         IN <<f>> \o FilesInOrder(fs \ {f})

\* read_device_events : Err as soon as one file does not open under the secret
RECURSIVE read_files(_, _, _)
read_files(files_, i, secret) ==
    IF i > Len(files_) THEN [ok |-> TRUE, events |-> <<>>]
    ELSE IF files_[i].key # secret THEN [ok |-> FALSE, events |-> <<>>]
    ELSE LET rest == read_files(files_, i + 1, secret)
         IN [ok |-> rest.ok,
             events |-> IF rest.ok THEN files_[i].envelopes \o rest.events ELSE <<>>]

read_device_events(dir, device, secret) ==
    read_files(FilesInOrder(DeviceFiles(dir, device)), 1, secret)

\* stable sort by timestamp (slice::sort_by)
RECURSIVE InsertByTimestamp(_, _)
InsertByTimestamp(sorted, e) ==
    IF sorted = <<>> THEN <<e>>
    ELSE IF sorted[Len(sorted)].timestamp <= e.timestamp THEN Append(sorted, e)
    ELSE Append(InsertByTimestamp(SubSeq(sorted, 1, Len(sorted) - 1), e), sorted[Len(sorted)])

RECURSIVE SortByTimestamp(_)
SortByTimestamp(es) ==
    IF es = <<>> THEN <<>>
    ELSE InsertByTimestamp(SortByTimestamp(SubSeq(es, 1, Len(es) - 1)), es[Len(es)])

\* read_all_events : the device directories are visited in the order read_dir
\* yields them (dirs), then the concatenation is sorted by timestamp
RECURSIVE read_dirs(_, _, _, _)
read_dirs(dir, dirs, i, secret) ==
    IF i > Len(dirs) THEN [ok |-> TRUE, events |-> <<>>]
    ELSE LET here == read_device_events(dir, dirs[i], secret) IN
         IF ~here.ok THEN [ok |-> FALSE, events |-> <<>>]
         ELSE LET rest == read_dirs(dir, dirs, i + 1, secret)
              IN [ok |-> rest.ok,
                  events |-> IF rest.ok THEN here.events \o rest.events ELSE <<>>]

read_all_events(dir, dirs, secret) ==
    LET r == read_dirs(dir, dirs, 1, secret)
    IN [ok |-> r.ok, events |-> SortByTimestamp(r.events)]

\* the orders in which read_dir may list the device directories of dir
DirOrders(dir) ==
    LET ds == {f.device : f \in dir}
    IN {o \in UNION {[1..n -> ds] : n \in {Cardinality(ds)}} :
            \A i, j \in DOMAIN o : i # j => o[i] # o[j]}

\* ------------------------------------------------------------------------
\* sync/merge.rs : merge_events (the clock it returns)
\* ------------------------------------------------------------------------
RECURSIVE merge_from(_, _, _, _, _)
merge_from(all, i, seen, merged, clock_) ==
    IF i > Len(all) THEN [merged |-> merged, clock |-> clock_]
    ELSE IF all[i].id \in seen THEN merge_from(all, i + 1, seen, merged, clock_)
    ELSE merge_from(all, i + 1, seen \cup {all[i].id}, Append(merged, all[i]),
                    VectorClock_merge(clock_, all[i].clock))

merge_events(local, remote, local_clock) ==
    LET r == merge_from(local \o remote, 1, {}, <<>>, local_clock)
    IN [merged |-> SortByTimestamp(r.merged), clock |-> r.clock]

\* ------------------------------------------------------------------------
\* State
\* ------------------------------------------------------------------------
VARIABLES
    disk,       \* disk[d]: the event files in the sync directory of device d
    clock,      \* clock[d]: EventLog.clock of the engine of device d
    index,      \* index[d]: the StateDb of device d
    known,      \* known[d]: SyncEngine.known_devices of device d
    now,        \* the wall clock (it advances between two writes)
    uuid,       \* number of uuids drawn so far
    rebooted,   \* rebooted[d]: the daemon of d was restarted at least once
    last,       \* the last operation and what it returned
    m_db,       \* a StateDb the materialiser is run on
    m_pool,     \* the envelopes that exist, in creation order
    m_last,     \* the envelope list of the last materialize_events call
    m_applied,  \* the count that call returned
    m_uuid,     \* number of uuids drawn so far
    d_obs,      \* the profile state scan_profile read last
    d_scanned,  \* scan_profile's events have just been materialised
    k_secret,   \* k_secret[d]: the X25519 secret of the key pair of device d
    k_known,    \* k_known[d]: the known_devices list of device d
    k_file,     \* an event file sealed by one device
    k_opened,   \* the last attempt to open k_file
    profile,    \* the files of the browser profile of device A
    queue,      \* WriteQueue.pending of device A
    cycle,      \* what the last sync() cycle of device A did
    flushed,    \* the last WriteQueue call (queue_* or flush) and what it did
    n_inbound,  \* the inbound sync requests of the node, by request id
    n_events,   \* event_tx: the NetworkEvents on their way to the daemon
    n_commands, \* command_tx: the NetworkCommands on their way to the node
    p_state,    \* the PairingState of the daemon
    p_chan,     \* the oneshot channels of the JoinSession commands
    p_now,      \* the monotonic clock (Instant::now), in seconds
    p_last,     \* the last pairing command handled
    vc_a,       \* a VectorClock
    vc_b,       \* another VectorClock
    vc_last,    \* the last call on the two clocks and what it returned
    t_swarm,    \* the NetworkEvent run_swarm is sending, None at its select!
    t_daemon,   \* the NetworkCommand run_event_loop is sending, None at its select!
    t_seen,     \* number of inbound requests the swarm has yielded
    q_views     \* what the working cycles of A left, one view for each cycle

logVars == <<disk, clock, index, known, now, uuid, rebooted, last>>

matVars == <<m_db, m_pool, m_last, m_applied, m_uuid>>

diffVars == <<d_obs, d_scanned>>

keyVars == <<k_secret, k_known, k_file, k_opened>>

profVars == <<profile, queue, cycle>>

flushVars == <<flushed>>

netVars == <<n_inbound, n_events, n_commands>>

pairVars == <<p_state, p_chan, p_now, p_last>>

vcVars == <<vc_a, vc_b, vc_last>>

taskVars == <<t_swarm, t_daemon, t_seen>>

viewVars == <<q_views>>

vars == <<logVars, matVars, diffVars, keyVars, profVars, flushVars, netVars, pairVars,
          vcVars, taskVars, viewVars>>

\* ------------------------------------------------------------------------
\* Specification Spec: two paired devices, each with an engine over its own
\* copy of the sync directory; files travel between the copies one by one.
\* ------------------------------------------------------------------------
SecretOf == [d \in Dev |-> IF d = "A" THEN 2 ELSE 3]

PublicOf(d) == public_key(SecretOf[d])

Peer(d) == CHOOSE e \in Dev : e # d

\* the known-devices lists add_known_device has built before the engine runs:
\* none, the peer only, or the whole fleet with the device itself
KnownConfigs ==
    { [d \in Dev |-> <<>>],
      [d \in Dev |-> << <<Peer(d), PublicOf(Peer(d))>> >>],
      [d \in Dev |-> << <<d, PublicOf(d)>>, <<Peer(d), PublicOf(Peer(d))>> >>] }

\* what a device writes: the extension it has and the mailto handler it prefers
Batches(d) ==
    IF d = "A"
    THEN { <<ExtensionAdded("ub@x", "U", None), HandlerSet("mailto", "urlA")>> }
    ELSE { <<ExtensionAdded("np@y", "N", None), HandlerSet("mailto", "urlB")>> }

AllFiles == UNION {disk[d] : d \in Dev}

NoOp == [op |-> "none", dev |-> "", ok |-> TRUE, applied |-> 0]

NoObs == [extensions |-> <<>>, containers |-> <<>>, handlers |-> <<>>,
          whitelist |-> FALSE, prefs |-> <<>>]

MatIdle ==
    /\ m_db = StateDb_open
    /\ m_pool = <<>>
    /\ m_last = <<>>
    /\ m_applied = 0
    /\ m_uuid = 0

DiffIdle ==
    /\ d_obs = NoObs
    /\ d_scanned = FALSE

NoFile == [device |-> "", key |-> 0]

NoOpen == [op |-> "none", dev |-> "", ok |-> TRUE]

KeysIdle ==
    /\ k_secret = SecretOf
    /\ k_known = [d \in Dev |-> <<>>]
    /\ k_file = NoFile
    /\ k_opened = NoOpen

NewProfile ==
    [lock |-> FALSE, extensions |-> <<>>, containers |-> None, handlers |-> None,
     prefs |-> EmptyMap, user_js |-> None, xpi_dir |-> FALSE, xpi |-> EmptyMap,
     readonly |-> {}]

NoCycle ==
    [op |-> "none", locked |-> FALSE, written |-> {}, deleted |-> {},
     applied |-> <<>>, apply_returned |-> <<>>, incoming |-> 0, outbound |-> 0]

NoFlush == [op |-> "none", ok |-> TRUE, before |-> <<>>, done |-> 0, applied |-> <<>>]

\* PairingState::new
PairingState_new ==
    [current_session |-> None, pending_joiner |-> None, pending_request |-> None]

NoCommand ==
    [cmd |-> "none", code |-> "", accepted |-> FALSE, response |-> None, chan |-> 0,
     reply |-> None, before |-> PairingState_new, at |-> 0,
     prev |-> [cmd |-> "none", held |-> FALSE, code |-> ""]]

NoCall == [op |-> "none", a |-> <<>>, b |-> <<>>, out |-> <<>>]

ProfIdle ==
    /\ t_swarm = None
    /\ t_daemon = None
    /\ t_seen = 0
    /\ q_views = <<>>
    /\ vc_a = VectorClock_new
    /\ vc_b = VectorClock_new
    /\ vc_last = NoCall
    /\ profile = NewProfile
    /\ queue = <<>>
    /\ cycle = NoCycle
    /\ flushed = NoFlush
    /\ n_inbound = <<>>
    /\ n_events = <<>>
    /\ n_commands = <<>>
    /\ p_state = PairingState_new
    /\ p_chan = <<>>
    /\ p_now = 0
    /\ p_last = NoCommand

LogIdle ==
    /\ disk = [d \in Dev |-> {}]
    /\ clock = [d \in Dev |-> VectorClock_new]
    /\ index = [d \in Dev |-> StateDb_open]
    /\ known = [d \in Dev |-> <<>>]
    /\ now = 0
    /\ uuid = 0
    /\ rebooted = [d \in Dev |-> FALSE]
    /\ last = NoOp

Init ==
    /\ MatIdle
    /\ DiffIdle
    /\ KeysIdle
    /\ ProfIdle
    /\ disk = [d \in Dev |-> {}]
    /\ clock = [d \in Dev |-> VectorClock_new]
    /\ index = [d \in Dev |-> StateDb_open]
    /\ known \in KnownConfigs
    /\ now = 0
    /\ uuid = 0
    /\ rebooted = [d \in Dev |-> FALSE]
    /\ last = NoOp

\* EventLog::write_events(events, known_devices) with a non-empty list
WriteEvents(d, events) ==
    /\ Len(events) > 0
    /\ Cardinality(AllFiles) < MaxWrites
    /\ LET new_clock == VectorClock_increment(clock[d], d)
           envelopes == [i \in 1..Len(events) |->
                            EventEnvelope_new(uuid + i, now, d, new_clock, events[i])]
           secret == derive_group_secret(SecretOf[d], known[d])
           counter == VectorClock_get(new_clock, d)
           num == next_event_number(disk[d], d)
       IN /\ clock' = [clock EXCEPT ![d] = new_clock]
          /\ disk' = [disk EXCEPT ![d] = @ \cup {EventFile_new(d, num, counter, secret, envelopes)}]
          /\ uuid' = uuid + Len(events)
    /\ now' = now + 1
    /\ last' = NoOp
    /\ UNCHANGED <<index, known, rebooted, matVars, diffVars, keyVars, profVars, flushVars, netVars, pairVars, vcVars, taskVars, viewVars>>

\* SyncEngine::process_incoming returning Ok(applied)
ProcessIncoming(d, dirs) ==
    LET r == read_all_events(disk[d], dirs, derive_group_secret(SecretOf[d], known[d])) IN
    /\ r.ok
    /\ LET m == materialize_events(index[d], r.events, d, uuid, now)
           new_clock == merge_events(<<>>, r.events, clock[d]).clock
       IN /\ uuid' = m.uuid
          /\ IF m.applied > 0
             THEN /\ clock' = [clock EXCEPT ![d] = new_clock]
                  /\ index' = [index EXCEPT ![d] = save_vector_clock(m.db, new_clock)]
             ELSE /\ clock' = clock
                  /\ index' = [index EXCEPT ![d] = m.db]
          /\ last' = [op |-> "process_incoming", dev |-> d, ok |-> TRUE, applied |-> m.applied]
    /\ UNCHANGED <<disk, known, now, rebooted, matVars, diffVars, keyVars, profVars, flushVars, netVars, pairVars, vcVars, taskVars, viewVars>>

\* SyncEngine::process_incoming returning Err: read_all_events failed
ProcessIncomingErr(d, dirs) ==
    LET r == read_all_events(disk[d], dirs, derive_group_secret(SecretOf[d], known[d])) IN
    /\ ~r.ok
    /\ last' = [op |-> "process_incoming", dev |-> d, ok |-> FALSE, applied |-> 0]
    /\ UNCHANGED <<disk, clock, index, known, now, uuid, rebooted, matVars, diffVars, keyVars, profVars, flushVars, netVars, pairVars, vcVars, taskVars, viewVars>>

\* the file synchroniser copies one event file of the peer into the sync
\* directory of d
Deliver(d, f) ==
    /\ f \in disk[Peer(d)]
    /\ \A g \in disk[d] : ~(g.device = f.device /\ g.num = f.num)
    /\ disk' = [disk EXCEPT ![d] = @ \cup {f}]
    /\ last' = NoOp
    /\ UNCHANGED <<clock, index, known, now, uuid, rebooted, matVars, diffVars, keyVars, profVars, flushVars, netVars, pairVars, vcVars, taskVars, viewVars>>

\* daemon restart: initialize_daemon opens the StateDb again and builds a new
\* EventLog (EventLog::new: clock = VectorClock::new())
Restart(d) ==
    /\ rebooted' = [rebooted EXCEPT ![d] = TRUE]
    /\ clock' = [clock EXCEPT ![d] = VectorClock_new]
    /\ last' = NoOp
    /\ UNCHANGED <<disk, index, known, now, uuid, matVars, diffVars, keyVars, profVars, flushVars, netVars, pairVars, vcVars, taskVars, viewVars>>

Next ==
    \/ \E d \in Dev : \E events \in Batches(d) : WriteEvents(d, events)
    \/ \E d \in Dev : \E dirs \in DirOrders(disk[d]) : ProcessIncoming(d, dirs)
    \/ \E d \in Dev : \E dirs \in DirOrders(disk[d]) : ProcessIncomingErr(d, dirs)
    \/ \E d \in Dev : \E f \in disk[Peer(d)] : Deliver(d, f)
    \/ \E d \in Dev : Restart(d)

Spec == Init /\ [][Next]_vars

\* ------------------------------------------------------------------------
\* Properties of Spec
\* ------------------------------------------------------------------------
Envelopes(dir) == UNION {{f.envelopes[i] : i \in DOMAIN f.envelopes} : f \in dir}

AppliedAt(d) == {e \in Envelopes(AllFiles) : is_event_applied(index[d], e.id)}

HandlerSetsAt(d, protocol) ==
    {e \in AppliedAt(d) : e.event.type = "HandlerSet" /\ e.event.id = protocol}

\* C1: when two devices wrote HandlerSet events for the same protocol with
\* different timestamps and a device has materialised both (and no other
\* HandlerSet of that protocol), its handlers row holds the handler of the
\* later-timestamped event.
C1_LaterHandlerWins ==
    \A d \in Dev : \A p \in Protocols : \A e1, e2 \in HandlerSetsAt(d, p) :
        (/\ e1.device # e2.device
         /\ e1.timestamp < e2.timestamp
         /\ HandlerSetsAt(d, p) = {e1, e2})
        => (p \in DOMAIN index[d].handlers /\ index[d].handlers[p] = e2.event.handler)

\* C3: two different event files sealed by the same device never carry the
\* same counter, hence never the same nonce.
C3_NonceNeverRepeats ==
    \A f, g \in AllFiles :
        (f.device = g.device /\ f.num # g.num) => f.nonce # g.nonce

\* C4: of two event files of the same device, the one with the greater event
\* number carries the strictly greater local counter in its envelopes.
C4_NumberOrderIsCounterOrder ==
    \A f, g \in AllFiles :
        (f.device = g.device /\ f.num < g.num)
        => \A i \in DOMAIN f.envelopes : \A j \in DOMAIN g.envelopes :
              VectorClock_get(f.envelopes[i].clock, f.device)
                < VectorClock_get(g.envelopes[j].clock, g.device)

ClockA1B1 == [d \in Dev |-> 1]

\* the two-device scenario: dir holds exactly one batch of A written at clock
\* {A:1} and one batch of B written at clock {B:1}
ScenarioFiles(dir) ==
    /\ Cardinality(dir) = 2
    /\ \A d \in Dev : \E f \in dir :
          /\ f.device = d
          /\ \A i \in DOMAIN f.envelopes : f.envelopes[i].clock = [x \in {d} |-> 1]

RowsOf(d, dir) ==
    \A e \in Envelopes(dir) :
        /\ is_event_applied(index[d], e.id)
        /\ e.event.type = "ExtensionAdded" =>
              /\ e.event.id \in DOMAIN index[d].extensions
              /\ index[d].extensions[e.event.id].name = e.event.name[1]

C7_ClockDominatesLog ==
    (last.op = "process_incoming" /\ last.ok)
    => \A e \in Envelopes(disk[last.dev]) : \A k \in DOMAIN e.clock :
          VectorClock_get(clock[last.dev], k) >= e.clock[k]

\* ------------------------------------------------------------------------
\* SpecMat: materialize_events is called again and again on one StateDb with
\* lists of envelopes that exist (redelivered envelopes included)
\* ------------------------------------------------------------------------
MaxEnvelopes == 2

MatDevice == "A"

MatEvents ==
    {HandlerSet("mailto", "urlA"), HandlerRemoved("mailto"),
     ExtensionInstalled("ub@x", "U", "1.0", "amo", "xpi1"),
     TabSent("A", "https://t", None), TabReceived(2)}

\* the device whose envelopes MatDevice materialises
MatWriters == {"B"}

\* the envelope lists of 1 to k envelopes out of pool, repetitions included
EnvelopeLists(pool, k) ==
    UNION {{[i \in 1..n |-> pool[ix[i]]] : ix \in [1..n -> DOMAIN pool]} : n \in 1..k}

MatInit ==
    /\ LogIdle
    /\ DiffIdle
    /\ MatIdle
    /\ KeysIdle
    /\ ProfIdle

\* EventEnvelope::new on some device
NewEnvelope(event, device) ==
    /\ Len(m_pool) < MaxEnvelopes
    /\ m_pool' = Append(m_pool,
                        EventEnvelope_new(m_uuid + 1, Len(m_pool) + 1, device,
                                          VectorClock_new, event))
    /\ m_uuid' = m_uuid + 1
    /\ UNCHANGED <<m_db, m_last, m_applied, logVars, diffVars, keyVars, profVars, flushVars, netVars, pairVars, vcVars, taskVars, viewVars>>

\* materialize_events(&db, &events, device_id)
Materialize(events) ==
    LET r == materialize_events(m_db, events, MatDevice, m_uuid, Len(m_pool))
    IN /\ m_db' = r.db
       /\ m_applied' = r.applied
       /\ m_uuid' = r.uuid
       /\ m_last' = events
       /\ UNCHANGED <<m_pool, logVars, diffVars, keyVars, profVars, flushVars, netVars, pairVars, vcVars, taskVars, viewVars>>

MatNext ==
    \/ \E event \in MatEvents : \E device \in MatWriters : NewEnvelope(event, device)
    \/ \E events \in EnvelopeLists(m_pool, MaxListLen) : Materialize(events)

SpecMat == MatInit /\ [][MatNext]_vars

\* C2: materialising again the envelope list that was materialised last
\* leaves the state index as it is and reports zero applied events.
C2_MaterializeIdempotent ==
    m_last # <<>> =>
        LET again == materialize_events(m_db, m_last, MatDevice, m_uuid, Len(m_pool))
        IN again.db = m_db /\ again.applied = 0

\* a state after a call that applied two envelopes, a tab among them
C2_Witness ==
    /\ Len(m_last) = 2
    /\ m_applied = 2
    /\ m_db.pending_tabs # EmptyMap

\* ------------------------------------------------------------------------
\* SpecApply: events of other devices reach the materialiser one by one
\* ------------------------------------------------------------------------
MaxApplied == 2

\* the events that build the rows the pairs of EventPool act on
ApplyPool ==
    {ExtensionInstalled(x, "U", "1.0", "amo", "xpi1") : x \in ExtIds}
    \cup {ContainerAdded(c, "Work", "blue", "briefcase") : c \in ContainerIds}
    \cup {HandlerSet(p, h) : p \in Protocols, h \in HandlerUrls}
    \cup {SearchEngineAdded(e, "Engine", "https://s") : e \in SearchIds}
    \cup {SearchEngineDefault(e) : e \in SearchIds}
    \cup {PrefSet(k, PrefInt(7)) : k \in PrefKeys}
    \cup {TabSent("A", "https://t", None)}

ApplyInit ==
    /\ LogIdle
    /\ DiffIdle
    /\ MatIdle
    /\ KeysIdle
    /\ ProfIdle

\* one pass of the loop of materialize_events over a new envelope
ApplyOne(event) ==
    LET envelope == EventEnvelope_new(m_uuid + 1, m_uuid + 1, "B", VectorClock_new, event)
        r == materialize_events(m_db, <<envelope>>, MatDevice, m_uuid + 1, m_uuid + 1)
    IN /\ Cardinality(DOMAIN m_db.applied_events) < MaxApplied
       /\ m_db' = r.db
       /\ m_applied' = r.applied
       /\ m_uuid' = r.uuid
       /\ UNCHANGED <<m_pool, m_last, logVars, diffVars, keyVars, profVars, flushVars, netVars, pairVars, vcVars, taskVars, viewVars>>

ApplyNext == \E event \in ApplyPool : ApplyOne(event)

SpecApply == ApplyInit /\ [][ApplyNext]_vars

\* the state index after e1's envelope and e2's envelope were materialised in
\* the order first, second (the same two envelopes, the same uuid source and
\* the same instant in either order)
AfterBoth(db, e1, e2, e1_first) ==
    LET env1 == EventEnvelope_new(m_uuid + 1, m_uuid + 1, "B", VectorClock_new, e1)
        env2 == EventEnvelope_new(m_uuid + 2, m_uuid + 2, "B", VectorClock_new, e2)
        events == IF e1_first THEN <<env1, env2>> ELSE <<env2, env1>>
    IN materialize_events(db, events, MatDevice, m_uuid + 2, m_uuid + 3).db

Commute(db, e1, e2) == AfterBoth(db, e1, e2, TRUE) = AfterBoth(db, e1, e2, FALSE)

\* C9: two events with different entity_id values leave the same state index
\* in either order, for every pair of event variants.
C9_DifferentEntitiesCommute ==
    \A e1, e2 \in EventPool :
        entity_id(e1) # entity_id(e2) => Commute(m_db, e1, e2)

\* C9 (amended): two events with different entity_id values leave the same
\* state index in either order, unless both are SearchEngineDefault events.
C9_CommuteButDefaults ==
    \A e1, e2 \in EventPool :
        (/\ entity_id(e1) # entity_id(e2)
         /\ ~(e1.type = "SearchEngineDefault" /\ e2.type = "SearchEngineDefault"))
        => Commute(m_db, e1, e2)

\* an index with both search engines, where a SearchEngineDefault of one and
\* a SearchEngineRemoved of the other both change rows
C9_Witness ==
    /\ DOMAIN m_db.search_engines = SearchIds
    /\ AfterBoth(m_db, SearchEngineDefault("ddg"), SearchEngineRemoved("brave"), TRUE) # m_db

\* ------------------------------------------------------------------------
\* sync/diff.rs and SyncEngine::scan_profile
\* ------------------------------------------------------------------------
\* the orders a HashMap or an unordered SELECT can yield the keys S in
SeqsOf(S) ==
    {s \in [1..Cardinality(S) -> S] : \A i, j \in DOMAIN s : i # j => s[i] # s[j]}

Range(s) == {s[i] : i \in DOMAIN s}

\* u32::to_string on the container ids the model uses
u32_to_string(n) == CASE n = 1 -> "1" [] n = 2 -> "2" [] OTHER -> "0"

diff_extensions(current, previous) ==
    LET current_ids == {current[i].id : i \in DOMAIN current}
        previous_ids == Range(previous)
        added == SelectSeq(current, LAMBDA ext : ext.id \notin previous_ids)
        removed == SelectSeq(previous, LAMBDA id : id \notin current_ids)
    IN [i \in DOMAIN added |-> ExtensionAdded(added[i].id, added[i].name, added[i].url)]
       \o [i \in DOMAIN removed |-> ExtensionRemoved(removed[i])]

diff_containers(current, known_ids) ==
    LET current_ids == {u32_to_string(current[i].user_context_id) : i \in DOMAIN current}
        known_set == Range(known_ids)
        added == SelectSeq(current,
                           LAMBDA c : u32_to_string(c.user_context_id) \notin known_set)
        removed == SelectSeq(known_ids, LAMBDA id : id \notin current_ids)
    IN [i \in DOMAIN added |->
            ContainerAdded(u32_to_string(added[i].user_context_id), added[i].name,
                           added[i].color, added[i].icon)]
       \o [i \in DOMAIN removed |-> ContainerRemoved(removed[i])]

\* known_: protocol -> handler; keys: the order known.keys() yields
diff_handlers(current, known_, keys) ==
    LET current_protocols == {current[i].protocol : i \in DOMAIN current}
        changed == SelectSeq(current,
                             LAMBDA h : \/ h.protocol \notin DOMAIN known_
                                        \/ known_[h.protocol] # h.handler)
        removed == SelectSeq(keys, LAMBDA p : p \notin current_protocols)
    IN [i \in DOMAIN changed |-> HandlerSet(changed[i].protocol, changed[i].handler)]
       \o [i \in DOMAIN removed |-> HandlerRemoved(removed[i])]

\* current, known_: key -> PrefValue; current_keys, known_keys: iteration orders
diff_prefs(current, known_, current_keys, known_keys) ==
    LET changed == SelectSeq(current_keys,
                             LAMBDA k : k \notin DOMAIN known_ \/ known_[k] # current[k])
        removed == SelectSeq(known_keys, LAMBDA k : k \notin DOMAIN current)
    IN [i \in DOMAIN changed |-> PrefSet(changed[i], current[changed[i]])]
       \o [i \in DOMAIN removed |-> PrefRemoved(removed[i])]

query_handlers(db) == db.handlers

query_prefs(db) ==
    [k \in DOMAIN db.prefs |->
        CASE db.prefs[k].value_type = "bool" ->
                PrefBool(parse_bool_or_false(db.prefs[k].value))
          [] db.prefs[k].value_type = "int" -> PrefInt(parse_i64_or_0(db.prefs[k].value))
          [] OTHER -> PrefString(db.prefs[k].value)]

\* the row and key orders one scan can meet
ScanOrders(db, obs) ==
    [extensions : SeqsOf(DOMAIN db.extensions),
     containers : SeqsOf(DOMAIN db.containers),
     handlers : SeqsOf(DOMAIN db.handlers),
     current_prefs : SeqsOf(DOMAIN obs.prefs),
     known_prefs : SeqsOf(DOMAIN db.prefs)]

\* obs: what read_extensions, read_containers, read_handlers and read_prefs
\* returned; obs.whitelist: the preference whitelist is not empty
scan_profile(db, obs, ord) ==
    diff_extensions(obs.extensions, ord.extensions)
    \o diff_containers(obs.containers, ord.containers)
    \o diff_handlers(obs.handlers, query_handlers(db), ord.handlers)
    \o (IF obs.whitelist
        THEN diff_prefs(obs.prefs, query_prefs(db), ord.current_prefs, ord.known_prefs)
        ELSE <<>>)

\* ------------------------------------------------------------------------
\* SpecDiff: one device scans its profile and materialises the events of the
\* scan, while events of another device arrive
\* ------------------------------------------------------------------------
MaxRemote == 1

Extension(id, name, url) == [id |-> id, name |-> name, url |-> url]

Container(user_context_id, name, icon, color) ==
    [user_context_id |-> user_context_id, name |-> name, icon |-> icon, color |-> color]

Handler(protocol, handler) == [protocol |-> protocol, handler |-> handler]

Observation(extensions, containers, handlers, whitelist, prefs) ==
    [extensions |-> extensions, containers |-> containers, handlers |-> handlers,
     whitelist |-> whitelist, prefs |-> prefs]

\* the profile states a scan can read
Observations ==
    {NoObs,
     Observation(<<Extension("ub@x", "U", None)>>,
                 <<Container(1, "Work", "briefcase", "blue")>>,
                 <<Handler("mailto", "urlA")>>,
                 TRUE, [k \in {"k1"} |-> PrefInt(7)]),
     Observation(<<Extension("ub@x", "U", None), Extension("np@y", "N", Some("https://n"))>>,
                 <<Container(2, "Home", "tree", "red"), Container(1, "Work", "briefcase", "blue")>>,
                 <<Handler("irc", "urlA"), Handler("mailto", "urlB")>>,
                 TRUE, [k \in PrefKeys |-> IF k = "k1" THEN PrefBool(TRUE) ELSE PrefString("true")]),
     Observation(<<Extension("ub@x", "U", None), Extension("ub@x", "V", None)>>,
                 <<>>,
                 <<Handler("mailto", "urlB")>>,
                 TRUE, EmptyMap),
     Observation(<<Extension("np@y", "N", None)>>,
                 <<Container(1, "Work", "briefcase", "blue")>>,
                 <<>>,
                 TRUE, [k \in PrefKeys |-> IF k = "k1" THEN PrefInt(0) ELSE PrefBool(FALSE)]),
     Observation(<<>>,
                 <<Container(2, "Home", "tree", "red")>>,
                 <<Handler("irc", "urlB")>>,
                 FALSE, [k \in {"k1"} |-> PrefString("7")])}

\* the events of the other device
RemotePool ==
    {ExtensionAdded("np@y", "N", None), ExtensionInstalled("ub@x", "U", "1.0", "amo", "xpi1"),
     ContainerAdded("2", "Home", "red", "tree"), ContainerRemoved("1"),
     HandlerSet("mailto", "urlB"), HandlerRemoved("irc"),
     PrefSet("k1", PrefBool(TRUE)), PrefSet("k2", PrefInt(-1))}

\* EventLog::write_events wraps every event of the batch
Wrap(events, device, uuid_, time) ==
    [i \in DOMAIN events |->
        EventEnvelope_new(uuid_ + i, time, device, VectorClock_new, events[i])]

DiffInit ==
    /\ LogIdle
    /\ DiffIdle
    /\ MatIdle
    /\ KeysIdle
    /\ ProfIdle

\* an event of the other device is read from the log and materialised
RemoteEvent(event) ==
    LET envelope == EventEnvelope_new(m_uuid + 1, m_uuid + 1, "B", VectorClock_new, event)
        r == materialize_events(m_db, <<envelope>>, MatDevice, m_uuid + 1, m_uuid + 1)
    IN /\ Len(m_pool) < MaxRemote
       /\ m_pool' = Append(m_pool, envelope)
       /\ m_db' = r.db
       /\ m_applied' = r.applied
       /\ m_uuid' = r.uuid
       /\ d_scanned' = FALSE
       /\ UNCHANGED <<m_last, d_obs, logVars, keyVars, profVars, flushVars, netVars, pairVars, vcVars, taskVars, viewVars>>

\* scan_profile, then its events are written and materialised
ScanAndMaterialize(obs, ord) ==
    LET events == scan_profile(m_db, obs, ord)
        envelopes == Wrap(events, MatDevice, m_uuid, m_uuid + 1)
        r == materialize_events(m_db, envelopes, MatDevice, m_uuid + Len(events),
                                m_uuid + 1)
    IN /\ ~d_scanned
       /\ d_obs' = obs
       /\ d_scanned' = TRUE
       /\ m_last' = envelopes
       /\ m_db' = r.db
       /\ m_applied' = r.applied
       /\ m_uuid' = r.uuid
       /\ UNCHANGED <<m_pool, logVars, keyVars, profVars, flushVars, netVars, pairVars, vcVars, taskVars, viewVars>>

DiffNext ==
    \/ \E event \in RemotePool : RemoteEvent(event)
    \/ \E obs \in Observations : \E ord \in ScanOrders(m_db, obs) :
          ScanAndMaterialize(obs, ord)

SpecDiff == DiffInit /\ [][DiffNext]_vars

\* C8: right after the events of a scan were materialised, a scan of the same
\* observation against the updated index returns no events.
C8_DiffThenMaterializeIsFixpoint ==
    d_scanned => \A ord \in ScanOrders(m_db, d_obs) : scan_profile(m_db, d_obs, ord) = <<>>

\* a scan that returned events of all four kinds, removals among them
C8_Witness ==
    /\ d_scanned
    /\ m_applied >= 4
    /\ \A t \in {"ExtensionAdded", "ContainerRemoved", "HandlerSet", "PrefSet"} :
          \E i \in DOMAIN m_last : m_last[i].event.type = t

\* ------------------------------------------------------------------------
\* SpecKeys: the devices of a fleet generate key pairs, learn of each other
\* through add_known_device, seal event files and open them
\* ------------------------------------------------------------------------
MaxKnown == 2

\* the secrets KeyPair::generate can draw
KeySecrets == 2..4

KeysInit ==
    /\ LogIdle
    /\ MatIdle
    /\ DiffIdle
    /\ ProfIdle
    /\ k_secret \in {ks \in [Dev -> KeySecrets] : \A d, e \in Dev : d # e => ks[d] # ks[e]}
    /\ k_known = [d \in Dev |-> <<>>]
    /\ k_file = NoFile
    /\ k_opened = NoOpen

\* SyncEngine::add_known_device(device_id, public_key) on device d
AddKnownDevice(d, e) ==
    /\ Len(k_known[d]) < MaxKnown
    /\ k_known' = [k_known EXCEPT ![d] = Append(@, <<e, public_key(k_secret[e])>>)]
    /\ UNCHANGED <<k_secret, k_file, k_opened, logVars, matVars, diffVars, profVars, flushVars, netVars, pairVars, vcVars, taskVars, viewVars>>

\* EventLog::write_events on device d: EventFile::new under the group secret
SealFile(d) ==
    /\ k_file' = [device |-> d, key |-> derive_group_secret(k_secret[d], k_known[d])]
    /\ k_opened' = NoOpen
    /\ UNCHANGED <<k_secret, k_known, logVars, matVars, diffVars, profVars, flushVars, netVars, pairVars, vcVars, taskVars, viewVars>>

\* EventLog::read_device_events on device d: EventFile::decrypt under d's
\* group secret succeeds if that is the key the file was sealed under
OpenFile(d) ==
    /\ k_file # NoFile
    /\ k_opened' = [op |-> "open", dev |-> d,
                    ok |-> (derive_group_secret(k_secret[d], k_known[d]) = k_file.key)]
    /\ UNCHANGED <<k_secret, k_known, k_file, logVars, matVars, diffVars, profVars, flushVars, netVars, pairVars, vcVars, taskVars, viewVars>>

KeysNext ==
    \/ \E d, e \in Dev : AddKnownDevice(d, e)
    \/ \E d \in Dev : SealFile(d)
    \/ \E d \in Dev : OpenFile(d)

SpecKeys == KeysInit /\ [][KeysNext]_vars

\* the known_devices list of d names exactly the devices of S, each once
KnownIs(d, S) ==
    /\ Len(k_known[d]) = Cardinality(S)
    /\ {k_known[d][i][1] : i \in DOMAIN k_known[d]} = S

GroupSecretOf(d) == derive_group_secret(k_secret[d], k_known[d])

\* C5: when the known_devices list of every member of a paired set S is S
\* (itself included), all members derive the same group secret, and a member
\* opens a file another member sealed under these lists.
C5_SameGroupSecret ==
    \A S \in SUBSET Dev :
        (S # {} /\ \A d \in S : KnownIs(d, S))
        => /\ \A d, e \in S : GroupSecretOf(d) = GroupSecretOf(e)
           /\ (/\ k_opened.op = "open" /\ k_opened.dev \in S
               /\ k_file.device \in S /\ k_file.key = GroupSecretOf(k_file.device))
              => k_opened.ok

\* ------------------------------------------------------------------------
\* profile/*.rs, extensions/package.rs, profile/write_queue.rs and the
\* profile half of SyncEngine.  A profile is a record of its files:
\* lock (the sentinel), extensions (extensions.json), containers
\* (containers.json or None), handlers (handlers.json or None, protocol ->
\* first handler), user_js (user.js or None), xpi_dir and xpi (the directory
\* extensions/ and its <id>.xpi files).
\* ------------------------------------------------------------------------
is_browser_running(p) == p.lock

read_extensions(p) == p.extensions

read_containers(p) == IF p.containers = None THEN <<>> ELSE p.containers[1]

\* keys: the order the schemes HashMap yields its protocols in
read_handlers(p, keys) ==
    IF p.handlers = None THEN <<>>
    ELSE [i \in DOMAIN keys |-> Handler(keys[i], p.handlers[1][keys[i]])]

write_containers(p, containers) == [p EXCEPT !.containers = Some(containers)]

RECURSIVE insert_schemes(_, _, _)
insert_schemes(schemes, handlers, i) ==
    IF i > Len(handlers) THEN schemes
    ELSE insert_schemes(Upsert(schemes, handlers[i].protocol, handlers[i].handler),
                        handlers, i + 1)

\* the schemes of the existing file are kept, those of handlers are inserted
write_handlers(p, handlers) ==
    [p EXCEPT !.handlers =
        Some(insert_schemes(IF p.handlers = None THEN EmptyMap ELSE p.handlers[1],
                            handlers, 1))]

write_user_js(p, prefs) == [p EXCEPT !.user_js = Some(prefs)]

\* decode_base64 then decompress_xpi on the packages the model uses
decode_xpi(xpi_data) ==
    CASE xpi_data = "xpi1" -> "bytes1" [] xpi_data = "xpi2" -> "bytes2" [] OTHER -> ""

install_to_profile(p, xpi_data, extension_id) ==
    [p EXCEPT !.xpi_dir = TRUE, !.xpi = Upsert(@, extension_id, decode_xpi(xpi_data))]

\* the names sync() reports and the files they stand for
ContainersJson == <<"containers.json">>

HandlersJson == <<"handlers.json">>

UserJs == <<"user.js">>

XpiFile(id) == <<"extensions", id, "xpi">>

XpiRemoved(id) == <<"extensions", id, "xpi (removed)">>

\* str::parse::<u32>().unwrap_or(0) on the container ids the model uses
parse_u32_or_0(s_) == CASE s_ = "1" -> 1 [] s_ = "2" -> 2 [] OTHER -> 0

get_materialized_containers(db, rows) ==
    [i \in DOMAIN rows |->
        Container(parse_u32_or_0(rows[i]), db.containers[rows[i]].name,
                  db.containers[rows[i]].icon, db.containers[rows[i]].color)]

get_materialized_handlers(db, rows) ==
    [i \in DOMAIN rows |-> Handler(rows[i], db.handlers[rows[i]])]

get_materialized_prefs(db) == query_prefs(db)

\* WriteQueue: pending is a sequence of [kind, data]
PendingWrite(kind, data) == [kind |-> kind, data |-> data]

\* a push that keeps the earlier item of the kind
queue_write_push(pending, kind, data) == Append(pending, PendingWrite(kind, data))

queue_write(pending, kind, data) ==
    Append(SelectSeq(pending, LAMBDA w : w.kind # kind), PendingWrite(kind, data))

\* the artifact a queued write of this kind goes to
artifact(kind) ==
    CASE kind = "Containers" -> ContainersJson
      [] kind = "Handlers" -> HandlersJson
      [] OTHER -> UserJs

\* std::fs::write fails on the files the profile does not let be written
write_fails(p, file) == file \in p.readonly

\* WriteQueue::flush: the loop runs over pending.drain(..); a failing write
\* returns through `?`, which drops the Drain and with it every element that
\* was still in the range, so pending is empty however the loop ends
RECURSIVE flush_from(_, _, _, _)
flush_from(pending, i, p, applied) ==
    IF i > Len(pending)
    THEN [ok |-> TRUE, profile |-> p, applied |-> applied, pending |-> <<>>]
    ELSE IF write_fails(p, artifact(pending[i].kind))
    THEN [ok |-> FALSE, profile |-> p, applied |-> applied, pending |-> <<>>]
    ELSE CASE pending[i].kind = "Containers" ->
                flush_from(pending, i + 1, write_containers(p, pending[i].data),
                           Append(applied, ContainersJson))
           [] pending[i].kind = "Handlers" ->
                flush_from(pending, i + 1, write_handlers(p, pending[i].data),
                           Append(applied, HandlersJson))
           [] OTHER ->
                flush_from(pending, i + 1, write_user_js(p, pending[i].data),
                           Append(applied, UserJs))

\* a flush that starts at the item queued last
flush_reversed(pending, p) ==
    flush_from([i \in DOMAIN pending |-> pending[Len(pending) + 1 - i]], 1, p, <<>>)

flush(pending, p) == flush_from(pending, 1, p, <<>>)

\* rows: the row orders the SELECTs of one cycle yield
\* queue_profile_writes: only the snapshots that are not empty are queued
queue_profile_writes(pending, db, rows) ==
    LET containers == get_materialized_containers(db, rows.containers)
        handlers == get_materialized_handlers(db, rows.handlers)
        prefs == get_materialized_prefs(db)
        q1 == IF containers # <<>> THEN queue_write(pending, "Containers", containers)
              ELSE pending
        q2 == IF handlers # <<>> THEN queue_write(q1, "Handlers", handlers) ELSE q1
    IN IF prefs # EmptyMap THEN queue_write(q2, "Prefs", prefs) ELSE q2

write_profile_state(p, db, rows) ==
    LET containers == get_materialized_containers(db, rows.containers)
        handlers == get_materialized_handlers(db, rows.handlers)
        prefs == get_materialized_prefs(db)
        p1 == IF containers # <<>> THEN write_containers(p, containers) ELSE p
        p2 == IF handlers # <<>> THEN write_handlers(p1, handlers) ELSE p1
        p3 == IF prefs # EmptyMap THEN write_user_js(p2, prefs) ELSE p2
    IN [ok |-> (containers # <<>> => ~write_fails(p, ContainersJson))
               /\ (handlers # <<>> => ~write_fails(p, HandlersJson))
               /\ (prefs # EmptyMap => ~write_fails(p, UserJs)),
        profile |-> p3,
        written |-> (IF containers # <<>> THEN <<ContainersJson>> ELSE <<>>)
                    \o (IF handlers # <<>> THEN <<HandlersJson>> ELSE <<>>)
                    \o (IF prefs # EmptyMap THEN <<UserJs>> ELSE <<>>)]

\* SyncEngine::apply_to_profile
apply_to_profile(p, pending, db, rows) ==
    IF is_browser_running(p)
    THEN [ok |-> TRUE, profile |-> p,
          pending |-> queue_profile_writes(pending, db, rows), applied |-> <<>>]
    ELSE LET drained == flush(pending, p)
             state == write_profile_state(drained.profile, db, rows)
         IN [ok |-> drained.ok /\ state.ok, profile |-> state.profile,
             pending |-> drained.pending,
             applied |-> drained.applied \o state.written]

\* SyncEngine::install_pending_extensions over the rows of extensions
RECURSIVE install_pending_extensions(_, _, _, _, _)
install_pending_extensions(p, db, ids, i, installed) ==
    IF i > Len(ids) THEN [profile |-> p, installed |-> installed]
    ELSE IF ids[i] \in DOMAIN p.xpi
         THEN install_pending_extensions(p, db, ids, i + 1, installed)
    ELSE IF ids[i] \in DOMAIN db.extension_xpi
         THEN install_pending_extensions(
                install_to_profile(p, db.extension_xpi[ids[i]].xpi_data, ids[i]),
                db, ids, i + 1, Append(installed, ids[i]))
    ELSE install_pending_extensions(p, db, ids, i + 1, installed)

\* SyncEngine::remove_uninstalled_extensions over the entries of extensions/
RECURSIVE remove_uninstalled_from(_, _, _, _, _, _)
remove_uninstalled_from(p, db, known_ids, stems, i, removed) ==
    IF i > Len(stems) THEN [profile |-> p, db |-> db, removed |-> removed]
    ELSE IF stems[i] \in DOMAIN db.extension_xpi /\ stems[i] \notin known_ids
         THEN remove_uninstalled_from(
                [p EXCEPT !.xpi = Delete(@, stems[i])],
                remove_extension_xpi(db, stems[i]),
                known_ids, stems, i + 1, Append(removed, stems[i]))
    ELSE remove_uninstalled_from(p, db, known_ids, stems, i + 1, removed)

remove_uninstalled_extensions(p, db, stems) ==
    IF ~p.xpi_dir THEN [profile |-> p, db |-> db, removed |-> <<>>]
    ELSE remove_uninstalled_from(p, db, DOMAIN db.extensions, stems, 1, <<>>)

\* ------------------------------------------------------------------------
\* SpecSync: device A runs sync() cycles over its profile while the browser
\* starts and stops, the browser rewrites profile files and batches of
\* device B arrive in the sync directory
\* ------------------------------------------------------------------------
\* the batches device B writes at most
MaxSyncFiles == 1

\* the event files device A writes at most
MaxOwnFiles == 1

SyncDevice == "A"

\* each device knows its peer
SyncKnown == [d \in Dev |-> << <<Peer(d), PublicOf(Peer(d))>> >>]

\* the batches device B writes
SyncBatches ==
    { <<ExtensionInstalled("ub@x", "U", "1.0", "amo", "xpi1")>>,
      <<ExtensionUninstalled("ub@x")>>,
      <<ContainerAdded("1", "Work", "blue", "briefcase"), HandlerSet("mailto", "urlB")>>,
      <<PrefSet("k1", PrefInt(7))>> }

\* what the running browser can make of the profile
UserEdits(p) ==
    { [p EXCEPT !.containers = Some(<<Container(2, "Home", "tree", "red")>>)],
      [p EXCEPT !.handlers = Some([k \in {"irc"} |-> "urlA"])],
      [p EXCEPT !.extensions = <<Extension("np@y", "N", None)>>] } \ {p}

SyncInit ==
    /\ MatIdle
    /\ DiffIdle
    /\ KeysIdle
    /\ ProfIdle
    /\ disk = [d \in Dev |-> {}]
    /\ clock = [d \in Dev |-> VectorClock_new]
    /\ index = [d \in Dev |-> StateDb_open]
    /\ known = SyncKnown
    /\ now = 0
    /\ uuid = 0
    /\ rebooted = [d \in Dev |-> FALSE]
    /\ last = NoOp

\* device B writes a batch and the file synchroniser copies the file to A;
\* B writes at most limit files
remote_write(events, limit) ==
    LET d == Peer(SyncDevice)
        new_clock == VectorClock_increment(clock[d], d)
        envelopes == [i \in 1..Len(events) |->
                         EventEnvelope_new(uuid + i, now, d, new_clock, events[i])]
        file == EventFile_new(d, next_event_number(disk[d], d),
                              VectorClock_get(new_clock, d),
                              derive_group_secret(SecretOf[d], known[d]), envelopes)
    IN /\ Cardinality(disk[d]) < limit
       /\ clock' = [clock EXCEPT ![d] = new_clock]
       /\ disk' = [e \in Dev |-> disk[e] \cup {file}]
       /\ uuid' = uuid + Len(events)
       /\ now' = now + 1
       /\ UNCHANGED <<index, known, rebooted, last, matVars, diffVars, keyVars, profVars, flushVars, netVars, pairVars, vcVars, taskVars, viewVars>>

RemoteBatch(events) == remote_write(events, MaxSyncFiles)

BrowserStart ==
    /\ ~profile.lock
    /\ profile' = [profile EXCEPT !.lock = TRUE]
    /\ UNCHANGED <<queue, cycle, logVars, matVars, diffVars, keyVars, flushVars, netVars, pairVars, vcVars, taskVars, viewVars>>

BrowserStop ==
    /\ profile.lock
    /\ profile' = [profile EXCEPT !.lock = FALSE]
    /\ UNCHANGED <<queue, cycle, logVars, matVars, diffVars, keyVars, flushVars, netVars, pairVars, vcVars, taskVars, viewVars>>

\* the running browser rewrites one of its files
UserEdit(p) ==
    /\ profile.lock
    /\ profile' = p
    /\ UNCHANGED <<queue, cycle, logVars, matVars, diffVars, keyVars, flushVars, netVars, pairVars, vcVars, taskVars, viewVars>>

\* one of the orders an unordered SELECT or a HashMap yields the keys S in;
\* the events, rows and files of different keys do not depend on each other
KeyOrder(S) == CHOOSE s \in SeqsOf(S) : TRUE

\* SyncEngine::process_incoming as a function of what it reads
process_incoming(d, dir, dirs, secret, db, clock_, uuid_, now_) ==
    LET r == read_all_events(dir, dirs, secret) IN
    IF ~r.ok THEN [ok |-> FALSE, applied |-> 0, db |-> db, clock |-> clock_, uuid |-> uuid_]
    ELSE LET m == materialize_events(db, r.events, d, uuid_, now_) IN
         IF m.applied > 0
         THEN LET new_clock == merge_events(<<>>, r.events, clock_).clock
              IN [ok |-> TRUE, applied |-> m.applied,
                  db |-> save_vector_clock(m.db, new_clock), clock |-> new_clock,
                  uuid |-> m.uuid]
         ELSE [ok |-> TRUE, applied |-> 0, db |-> m.db, clock |-> clock_, uuid |-> m.uuid]

\* scan_profile over the files of profile p (the preference whitelist is
\* empty, as in the default configuration)
scan_of(p, db) ==
    LET schemes == KeyOrder(IF p.handlers = None THEN {} ELSE DOMAIN p.handlers[1])
        obs == Observation(read_extensions(p), read_containers(p),
                           read_handlers(p, schemes), FALSE, EmptyMap)
    IN scan_profile(db, obs, [extensions |-> KeyOrder(DOMAIN db.extensions),
                              containers |-> KeyOrder(DOMAIN db.containers),
                              handlers |-> KeyOrder(DOMAIN db.handlers),
                              current_prefs |-> <<>>,
                              known_prefs |-> KeyOrder(DOMAIN db.prefs)])

\* apply_to_profile, install_pending_extensions, remove_uninstalled_extensions
sync_profile(p, pending, db) ==
    LET rows == [containers |-> KeyOrder(DOMAIN db.containers),
                 handlers |-> KeyOrder(DOMAIN db.handlers)]
        ap == apply_to_profile(p, pending, db, rows)
        ins == install_pending_extensions(ap.profile, db, KeyOrder(DOMAIN db.extensions),
                                          1, <<>>)
        rem == remove_uninstalled_extensions(ins.profile, db,
                                             KeyOrder(DOMAIN ins.profile.xpi))
    IN [ok |-> ap.ok, profile |-> rem.profile, db |-> rem.db, pending |-> ap.pending,
        apply_returned |-> ap.applied, installed |-> ins.installed,
        removed |-> rem.removed]

\* SyncEngine::sync returning Ok; A writes at most limit files
sync(dirs, limit) ==
    \E secret \in {derive_group_secret(SecretOf[SyncDevice], known[SyncDevice])} :
    \E inc \in {process_incoming(SyncDevice, disk[SyncDevice], dirs, secret,
                                 index[SyncDevice], clock[SyncDevice], uuid, now)} :
    \E events \in {scan_of(profile, inc.db)} :
    \E out \in {sync_profile(profile, queue, inc.db)} :
    LET d == SyncDevice
        \* write_events
        clock2 == IF events = <<>> THEN inc.clock ELSE VectorClock_increment(inc.clock, d)
        envelopes == [i \in 1..Len(events) |->
                         EventEnvelope_new(inc.uuid + i, now, d, clock2, events[i])]
        file == EventFile_new(d, next_event_number(disk[d], d),
                              VectorClock_get(clock2, d), secret, envelopes)
    IN /\ inc.ok
       /\ out.ok
       /\ events = <<>> \/ Cardinality(DeviceFiles(disk[d], d)) < limit
       /\ disk' = [disk EXCEPT ![d] = IF events = <<>> THEN @ ELSE @ \cup {file}]
       /\ clock' = [clock EXCEPT ![d] = clock2]
       /\ index' = [index EXCEPT ![d] = out.db]
       /\ uuid' = inc.uuid + Len(events)
       /\ now' = IF events = <<>> THEN now ELSE now + 1
       /\ last' = [op |-> "process_incoming", dev |-> d, ok |-> TRUE,
                   applied |-> inc.applied]
       /\ profile' = out.profile
       /\ queue' = out.pending
       /\ cycle' =
            [op |-> "sync", locked |-> is_browser_running(profile),
             written |-> Range(out.apply_returned)
                         \cup {XpiFile(out.installed[i]) : i \in DOMAIN out.installed},
             deleted |-> {XpiFile(out.removed[i]) : i \in DOMAIN out.removed},
             applied |-> out.apply_returned
                         \o [i \in DOMAIN out.installed |-> XpiFile(out.installed[i])]
                         \o [i \in DOMAIN out.removed |-> XpiRemoved(out.removed[i])],
             apply_returned |-> out.apply_returned,
             incoming |-> inc.applied, outbound |-> Len(events)]
       /\ UNCHANGED <<known, rebooted, matVars, diffVars, keyVars, flushVars, netVars, pairVars, vcVars, taskVars>>

Sync(dirs) == sync(dirs, MaxOwnFiles) /\ UNCHANGED viewVars

SyncNext ==
    \/ \E events \in SyncBatches : RemoteBatch(events)
    \/ BrowserStart
    \/ BrowserStop
    \/ \E p \in UserEdits(profile) : UserEdit(p)
    \/ \E dirs \in DirOrders(disk[SyncDevice]) : Sync(dirs)

SpecSync == SyncInit /\ [][SyncNext]_vars

\* the snapshots of the index of A that are not empty are on the write queue
SnapshotsQueued ==
    LET db == index[SyncDevice]
        kinds == {queue[i].kind : i \in DOMAIN queue}
    IN /\ db.containers # EmptyMap => "Containers" \in kinds
       /\ db.handlers # EmptyMap => "Handlers" \in kinds
       /\ db.prefs # EmptyMap => "Prefs" \in kinds

\* C10: a sync() cycle that ran with the browser lock present has created,
\* overwritten or deleted no file of the profile, its apply_to_profile
\* returned the empty list and the snapshots are on the write queue.
C10_LockedCycleTouchesNoFile ==
    (cycle.op = "sync" /\ cycle.locked)
    => /\ cycle.written = {}
       /\ cycle.deleted = {}
       /\ cycle.apply_returned = <<>>
       /\ SnapshotsQueued

\* ------------------------------------------------------------------------
\* Specification SpecFlush: the write queue of one engine; snapshots are
\* queued, files of the profile become unwritable and writable again, and
\* flush() is called.
\* ------------------------------------------------------------------------

FlushContainers ==
    {<<Container(1, "Work", "briefcase", "blue")>>, <<Container(2, "Home", "tree", "red")>>}

FlushHandlers == {<<Handler("mailto", u)>> : u \in HandlerUrls}

FlushPrefs == {[k \in {"k1"} |-> PrefInt(7)]}

Artifacts == {ContainersJson, HandlersJson, UserJs}

FlushInit ==
    /\ MatIdle
    /\ DiffIdle
    /\ KeysIdle
    /\ ProfIdle
    /\ LogIdle

queue_containers(containers) ==
    /\ queue' = queue_write(queue, "Containers", containers)
    /\ flushed' = [op |-> "queue", ok |-> TRUE, before |-> queue, done |-> 0,
                   applied |-> <<PendingWrite("Containers", containers)>>]
    /\ UNCHANGED <<profile, cycle, logVars, matVars, diffVars, keyVars, netVars, pairVars, vcVars, taskVars, viewVars>>

queue_handlers(handlers) ==
    /\ queue' = queue_write(queue, "Handlers", handlers)
    /\ flushed' = [op |-> "queue", ok |-> TRUE, before |-> queue, done |-> 0,
                   applied |-> <<PendingWrite("Handlers", handlers)>>]
    /\ UNCHANGED <<profile, cycle, logVars, matVars, diffVars, keyVars, netVars, pairVars, vcVars, taskVars, viewVars>>

queue_prefs(prefs) ==
    /\ queue' = queue_write(queue, "Prefs", prefs)
    /\ flushed' = [op |-> "queue", ok |-> TRUE, before |-> queue, done |-> 0,
                   applied |-> <<PendingWrite("Prefs", prefs)>>]
    /\ UNCHANGED <<profile, cycle, logVars, matVars, diffVars, keyVars, netVars, pairVars, vcVars, taskVars, viewVars>>

\* the permissions of the profile's files change
SetReadonly(files_) ==
    /\ profile.readonly # files_
    /\ profile' = [profile EXCEPT !.readonly = files_]
    /\ UNCHANGED <<queue, cycle, flushed, logVars, matVars, diffVars, keyVars, netVars, pairVars, vcVars, taskVars, viewVars>>

\* SyncEngine::flush_write_queue
Flush ==
    \E r \in {flush(queue, profile)} :
       /\ profile' = r.profile
       /\ queue' = r.pending
       /\ flushed' = [op |-> "flush", ok |-> r.ok, before |-> queue,
                      done |-> Len(r.applied), applied |-> r.applied]
       /\ UNCHANGED <<cycle, logVars, matVars, diffVars, keyVars, netVars, pairVars, vcVars, taskVars, viewVars>>

FlushNext ==
    \/ \E c \in FlushContainers : queue_containers(c)
    \/ \E h \in FlushHandlers : queue_handlers(h)
    \/ \E p \in FlushPrefs : queue_prefs(p)
    \/ \E S \in {{}} \cup {{a} : a \in Artifacts} : SetReadonly(S)
    \/ Flush

SpecFlush == FlushInit /\ [][FlushNext]_vars

\* C11: after a flush() that failed, every item of the queue that had not
\* been applied (the one whose write failed and those behind it) is still
\* in the queue, in the same order.
C11_FailedFlushKeepsRest ==
    (flushed.op = "flush" /\ ~flushed.ok)
    => queue = SubSeq(flushed.before, flushed.done + 1, Len(flushed.before))

\* ------------------------------------------------------------------------
\* Further properties of Spec: reading the log
\* ------------------------------------------------------------------------
Readable(d) ==
    {f \in disk[d] : f.key = derive_group_secret(SecretOf[d], known[d])}

\* C12: a process_incoming call succeeds whatever files the directory holds,
\* and the envelopes of every file that opens under the device's group secret
\* are applied by it; a file that does not open is skipped.
C12_BadFileIsSkipped ==
    last.op = "process_incoming"
    => /\ last.ok
       /\ \A e \in Envelopes(Readable(last.dev)) : is_event_applied(index[last.dev], e.id)

\* ------------------------------------------------------------------------
\* Specification SpecRead: event files of two devices in the sync directory
\* of A, written under the clocks and uuid generators of their devices, and
\* read_all_events on that directory.
\* ------------------------------------------------------------------------
MaxReadFiles == 2

\* the ids (Uuid::now_v7) and the wall-clock readings the envelopes carry
ReadIds == 1..3

ReadTimes == 1..2

ReadInit ==
    /\ MatIdle
    /\ DiffIdle
    /\ KeysIdle
    /\ ProfIdle
    /\ disk = [d \in Dev |-> {}]
    /\ clock = [d \in Dev |-> VectorClock_new]
    /\ index = [d \in Dev |-> StateDb_open]
    /\ known = [d \in Dev |-> << <<Peer(d), PublicOf(Peer(d))>> >>]
    /\ now = 0
    /\ uuid = 0
    /\ rebooted = [d \in Dev |-> FALSE]
    /\ last = NoOp

\* write_events on device d with one event; the envelope takes the id and
\* the time d's generator and wall clock give, both monotone on one device;
\* the file synchroniser has copied the file into the directory of A
ReadWrite(d, id, t) ==
    /\ Cardinality(disk["A"]) < MaxReadFiles
    /\ \A e \in Envelopes(disk["A"]) : e.id # id
    /\ \A e \in Envelopes(DeviceFiles(disk["A"], d)) : e.id < id /\ e.timestamp <= t
    /\ LET new_clock == VectorClock_increment(clock[d], d)
           envelope == EventEnvelope_new(id, t, d, new_clock, HandlerSet("mailto", "urlA"))
           secret == derive_group_secret(SecretOf[d], known[d])
           file == EventFile_new(d, next_event_number(disk["A"], d),
                                 VectorClock_get(new_clock, d), secret, <<envelope>>)
       IN /\ clock' = [clock EXCEPT ![d] = new_clock]
          /\ disk' = [disk EXCEPT !["A"] = @ \cup {file}]
    /\ last' = NoOp
    /\ UNCHANGED <<index, known, now, uuid, rebooted, matVars, diffVars, keyVars,
                   profVars, flushVars, netVars, pairVars, vcVars, taskVars, viewVars>>

\* EventLog::read_all_events on A, the device directories listed as dirs
ReadAll(dirs) ==
    \E r \in {read_all_events(disk["A"], dirs,
                              derive_group_secret(SecretOf["A"], known["A"]))} :
       /\ last' = [op |-> "read_all_events", dev |-> "A", ok |-> r.ok, applied |-> 0,
                   events |-> r.events]
       /\ UNCHANGED <<disk, clock, index, known, now, uuid, rebooted, matVars,
                      diffVars, keyVars, profVars, flushVars, netVars, pairVars, vcVars, taskVars, viewVars>>

ReadNext ==
    \/ \E d \in Dev : \E id \in ReadIds : \E t \in ReadTimes : ReadWrite(d, id, t)
    \/ \E dirs \in DirOrders(disk["A"]) : ReadAll(dirs)

SpecRead == ReadInit /\ [][ReadNext]_vars

\* C13: what read_all_events returns is in ascending timestamp order with
\* envelopes of equal timestamp in ascending id order, and is the same for
\* every order in which the device directories are listed.
C13_ReadOrderIsTimestampThenId ==
    last.op = "read_all_events"
    => /\ last.ok
       /\ \A i, j \in DOMAIN last.events :
            i < j => \/ last.events[i].timestamp < last.events[j].timestamp
                     \/ /\ last.events[i].timestamp = last.events[j].timestamp
                        /\ last.events[i].id < last.events[j].id
       /\ \A dirs \in DirOrders(disk["A"]) :
            read_all_events(disk["A"], dirs,
                            derive_group_secret(SecretOf["A"], known["A"])).events
                = last.events

\* ------------------------------------------------------------------------
\* Specification SpecInstall: device B installs, updates and uninstalls an
\* extension; device A runs sync() cycles with and without the browser lock.
\* ------------------------------------------------------------------------
MaxInstallFiles == 2

MaxInstallOwn == 2

InstallBatches ==
    { <<ExtensionInstalled("ub@x", "U", "1.0", "amo", "xpi1")>>,
      <<ExtensionInstalled("ub@x", "U", "2.0", "amo", "xpi2")>>,
      <<ExtensionUninstalled("ub@x")>> }

RemoteInstall(events) == remote_write(events, MaxInstallFiles)

InstallSync(dirs) == sync(dirs, MaxInstallOwn) /\ UNCHANGED viewVars

InstallNext ==
    \/ \E events \in InstallBatches : RemoteInstall(events)
    \/ BrowserStart
    \/ BrowserStop
    \/ \E dirs \in DirOrders(disk[SyncDevice]) : InstallSync(dirs)

SpecInstall == SyncInit /\ [][InstallNext]_vars

\* C14: after a sync() cycle that ran without the browser lock, every
\* extension whose latest applied event is an ExtensionInstalled (its rows in
\* extensions and extension_xpi exist) has the file extensions/<id>.xpi, and
\* the bytes of the file are the decoded package the index holds for the id.
C14_InstalledPackageIsLatest ==
    (cycle.op = "sync" /\ ~cycle.locked)
    => \A id \in DOMAIN index[SyncDevice].extensions \cap
                 DOMAIN index[SyncDevice].extension_xpi :
          /\ id \in DOMAIN profile.xpi
          /\ profile.xpi[id] = decode_xpi(index[SyncDevice].extension_xpi[id].xpi_data)

\* ------------------------------------------------------------------------
\* Specification SpecNet: the sync protocol of the node of device A.  Inbound
\* requests reach handle_sync_request, the NetworkEvents it sends reach the
\* daemon's handle_network_event, and the NetworkCommands the daemon sends
\* reach the node's handle_command.
\* ------------------------------------------------------------------------
MaxRequests == 3

\* SyncRequest
SyncRequests ==
    { [type |-> "GetClock"],
      [type |-> "GetEvents", clock |-> EmptyMap],
      [type |-> "PushEvents", events |-> <<"e1">>],
      [type |-> "SendTab", url |-> "u1", title |-> None, from_device |-> "B"] }

\* an inbound request: what became of its ResponseChannel, and the
\* responses sent on it
Inbound(request, channel, responses) ==
    [request |-> request, channel |-> channel, responses |-> responses]

\* the NetworkEvent handle_sync_request sends for a request
network_event(request, request_id) ==
    CASE request.type = "GetClock" ->
            [type |-> "ClockRequested", request_id |-> request_id]
      [] request.type = "GetEvents" ->
            [type |-> "EventsRequested", request_id |-> request_id,
             clock |-> request.clock]
      [] request.type = "PushEvents" ->
            [type |-> "EventsReceived", events |-> request.events]
      [] OTHER ->
            [type |-> "TabReceived", url |-> request.url, title |-> request.title,
             from_device |-> request.from_device]

\* handle_sync_request: handle_push_events and handle_send_tab answer on the
\* channel; handle_get_clock and handle_get_events are not given the
\* channel, which is dropped when handle_sync_request returns
handle_sync_request(request) ==
    /\ Len(n_inbound) < MaxRequests
    /\ n_events' = Append(n_events, network_event(request, Len(n_inbound) + 1))
    /\ n_inbound' =
         Append(n_inbound,
                CASE request.type = "PushEvents" ->
                        Inbound(request, "used",
                                <<[type |-> "Ack", count |-> Len(request.events)]>>)
                  [] request.type = "SendTab" ->
                        Inbound(request, "used", <<[type |-> "TabReceived"]>>)
                  [] OTHER -> Inbound(request, "dropped", <<>>))
    /\ UNCHANGED <<n_commands, logVars, matVars, diffVars, keyVars, profVars,
                   flushVars, pairVars, vcVars, taskVars, viewVars>>

\* SyncEngine::get_events_since
get_events_since(remote_clock) == <<>>

\* handle_network_event of the daemon on the next event of the channel
handle_network_event ==
    /\ n_events # <<>>
    /\ n_events' = Tail(n_events)
    /\ LET event == Head(n_events) IN
       CASE event.type = "ClockRequested" ->
              /\ n_commands' = Append(n_commands,
                                      [type |-> "RespondClock",
                                       request_id |-> event.request_id,
                                       clock |-> clock[SyncDevice]])
              /\ UNCHANGED <<index, uuid, vcVars, taskVars, viewVars>>
         [] event.type = "EventsRequested" ->
              /\ n_commands' = Append(n_commands,
                                      [type |-> "RespondEvents",
                                       request_id |-> event.request_id,
                                       events |-> get_events_since(event.clock)])
              /\ UNCHANGED <<index, uuid, vcVars, taskVars, viewVars>>
         [] event.type = "EventsReceived" ->
              UNCHANGED <<n_commands, index, uuid, vcVars, taskVars, viewVars>>
         [] OTHER ->
              \* receive_tab
              /\ index' = [index EXCEPT ![SyncDevice] =
                              add_pending_tab(@, uuid + 1, event.url, event.title,
                                              event.from_device, now)]
              /\ uuid' = uuid + 1
              /\ UNCHANGED n_commands
    /\ UNCHANGED <<n_inbound, disk, clock, known, now, rebooted, last, matVars,
                   diffVars, keyVars, profVars, flushVars, pairVars, vcVars, taskVars, viewVars>>

\* handle_command of the node on the next command of the channel:
\* RespondClock and RespondEvents write a debug line and send nothing
handle_command ==
    /\ n_commands # <<>>
    /\ n_commands' = Tail(n_commands)
    /\ UNCHANGED <<n_inbound, n_events, logVars, matVars, diffVars, keyVars,
                   profVars, flushVars, pairVars, vcVars, taskVars, viewVars>>

NetNext ==
    \/ \E request \in SyncRequests : handle_sync_request(request)
    \/ handle_network_event
    \/ handle_command

SpecNet == SyncInit /\ [][NetNext]_vars

\* the event loops of the daemon and of the node take what is on their
\* channels
SpecNetFair ==
    SpecNet /\ WF_vars(handle_network_event) /\ WF_vars(handle_command)

\* C15: no request is ever answered twice, and every inbound request is
\* eventually answered with one response on its channel.
C15_EveryRequestAnswered ==
    /\ [](\A r \in DOMAIN n_inbound : Len(n_inbound[r].responses) <= 1)
    /\ \A r \in 1..MaxRequests :
          (r \in DOMAIN n_inbound) ~> (/\ r \in DOMAIN n_inbound
                                       /\ Len(n_inbound[r].responses) = 1)

\* ------------------------------------------------------------------------
\* Specification SpecPair: the pairing state machine of the daemon.  The
\* event loop hands the PairingCommands to PairingState::handle_command one
\* at a time; time passes between commands.
\* ------------------------------------------------------------------------
MaxJoins == 2

MaxTicks == 2

\* CODE_EXPIRY, in seconds
CODE_EXPIRY == 300

\* the steps the clock is seen to make between commands
TickSteps == {150, 151}

\* generate_pairing_code: two of the codes of 100000..999999
PairingCodes == {"482913", "100000"}

\* the PairingRequest of the device that makes the c-th join_session call
JoinerRequest(c) ==
    [device_id |-> <<"joiner", c>>, device_name |-> "b", public_key |-> <<"pk", c>>]

PairingRequests == {JoinerRequest(c) : c \in 1..MaxJoins}

PairingResponses == {[device_id |-> "A", device_name |-> "a", public_key |-> "pkA"]}

\* PairingResult
Accepted(response) == [type |-> "Accepted", response |-> Some(response)]

Rejected == [type |-> "Rejected", response |-> None]

Expired == [type |-> "Expired", response |-> None]

InvalidCode == [type |-> "InvalidCode", response |-> None]

PendingSession(code, created_at) == [code |-> code, created_at |-> created_at]

\* oneshot::channel(): the sender is held, nothing was sent
oneshot_channel == [sender |-> "held", got |-> None]

\* Sender::send consumes the sender; got is the value it was given
oneshot_send(chans, c, result) ==
    [chans EXCEPT ![c] = [sender |-> "sent", got |-> Some(result)]]

\* a Sender that is overwritten is dropped without a value
oneshot_drop(chans, c) == [chans EXCEPT ![c].sender = "dropped"]

\* JoinSession: `valid`
join_valid(st, code, now_) ==
    /\ st.current_session # None
    /\ st.current_session[1].code = code
    /\ now_ - st.current_session[1].created_at <= CODE_EXPIRY

\* JoinSession: the result sent when the join is not valid
join_refusal(st) == IF st.current_session = None THEN InvalidCode ELSE Expired

\* RespondToRequest: the result sent to the joiner
respond_rejects(accepted, response) == Rejected

respond_result(accepted, response) ==
    IF accepted
    THEN IF response # None THEN Accepted(response[1]) ELSE Rejected
    ELSE Rejected

\* RespondToRequest and CancelSession: the state they leave
end_keeps_session(st) == [st EXCEPT !.pending_joiner = None, !.pending_request = None]

end_session(st) ==
    [st EXCEPT !.pending_joiner = None, !.pending_request = None,
               !.current_session = None]

Command(cmd, code, accepted, response, chan, reply) ==
    [cmd |-> cmd, code |-> code, accepted |-> accepted, response |-> response,
     chan |-> chan, reply |-> reply, before |-> p_state, at |-> p_now,
     prev |-> [cmd |-> p_last.cmd, held |-> p_last.before.pending_joiner # None,
               code |-> IF p_last.before.current_session = None THEN ""
                        ELSE p_last.before.current_session[1].code]]

PairInit ==
    /\ MatIdle
    /\ DiffIdle
    /\ KeysIdle
    /\ ProfIdle
    /\ LogIdle

CreateSession(code) ==
    /\ p_state' = [p_state EXCEPT !.current_session = Some(PendingSession(code, p_now))]
    /\ p_last' = Command("CreateSession", code, FALSE, None, 0, Some(code))
    /\ UNCHANGED <<p_chan, p_now, logVars, matVars, diffVars, keyVars, profVars,
                   flushVars, netVars, vcVars, taskVars, viewVars>>

JoinSession(code, request) ==
    LET c == Len(p_chan) + 1
        chans == Append(p_chan, oneshot_channel)
    IN /\ Len(p_chan) < MaxJoins
       /\ IF ~join_valid(p_state, code, p_now)
          THEN /\ p_chan' = oneshot_send(chans, c, join_refusal(p_state))
               /\ p_state' = p_state
          ELSE /\ p_chan' = IF p_state.pending_joiner # None
                            THEN oneshot_drop(chans, p_state.pending_joiner[1])
                            ELSE chans
               /\ p_state' = [p_state EXCEPT !.pending_joiner = Some(c),
                                             !.pending_request = Some(request)]
       /\ p_last' = Command("JoinSession", code, FALSE, None, c, None)
       /\ UNCHANGED <<p_now, logVars, matVars, diffVars, keyVars, profVars,
                      flushVars, netVars, vcVars, taskVars, viewVars>>

GetPendingRequest ==
    /\ p_last' = Command("GetPendingRequest", "", FALSE, None, 0, p_state.pending_request)
    /\ UNCHANGED <<p_state, p_chan, p_now, logVars, matVars, diffVars, keyVars,
                   profVars, flushVars, netVars, vcVars, taskVars, viewVars>>

RespondToRequest(accepted, response) ==
    /\ p_chan' = IF p_state.pending_joiner # None
                 THEN oneshot_send(p_chan, p_state.pending_joiner[1],
                                   respond_result(accepted, response))
                 ELSE p_chan
    /\ p_state' = end_session(p_state)
    /\ p_last' = Command("RespondToRequest", "", accepted, response, 0, None)
    /\ UNCHANGED <<p_now, logVars, matVars, diffVars, keyVars, profVars,
                   flushVars, netVars, vcVars, taskVars, viewVars>>

CancelSession ==
    /\ p_chan' = IF p_state.pending_joiner # None
                 THEN oneshot_send(p_chan, p_state.pending_joiner[1], Rejected)
                 ELSE p_chan
    /\ p_state' = end_session(p_state)
    /\ p_last' = Command("CancelSession", "", FALSE, None, 0, None)
    /\ UNCHANGED <<p_now, logVars, matVars, diffVars, keyVars, profVars,
                   flushVars, netVars, vcVars, taskVars, viewVars>>

\* time passes while a session exists (nothing reads the clock without one)
Tick(dt) ==
    /\ p_state.current_session # None
    /\ p_now + dt <= MaxTicks * 151
    /\ p_now' = p_now + dt
    /\ UNCHANGED <<p_state, p_chan, p_last, logVars, matVars, diffVars, keyVars,
                   profVars, flushVars, netVars, vcVars, taskVars, viewVars>>

PairNext ==
    \/ \E code \in PairingCodes : CreateSession(code)
    \/ \E code \in PairingCodes : \E request \in PairingRequests :
          request = JoinerRequest(Len(p_chan) + 1) /\ JoinSession(code, request)
    \/ GetPendingRequest
    \/ \E accepted \in BOOLEAN :
       \E response \in {None} \cup {Some(r) : r \in PairingResponses} :
          RespondToRequest(accepted, response)
    \/ CancelSession
    \/ \E dt \in TickSteps : Tick(dt)

SpecPair == PairInit /\ [][PairNext]_vars

\* the states of the machine
Idle(st) == st = PairingState_new

AwaitingJoiner(st) ==
    st.current_session # None /\ st.pending_joiner = None /\ st.pending_request = None

AwaitingConfirmation(st) ==
    st.current_session # None /\ st.pending_joiner # None /\ st.pending_request # None

\* what was sent on channel c
Got(c) == p_chan[c].got

\* the joiner channel held before the last command
HeldBefore == p_last.before.pending_joiner[1]

\* C16: a JoinSession with a code other than the session code, handled in
\* AwaitingJoiner before the session expired, is answered InvalidCode and
\* leaves the state (session, code, creation time) as it was.
C16_WrongCodeIsInvalidCode ==
    (/\ p_last.cmd = "JoinSession"
     /\ AwaitingJoiner(p_last.before)
     /\ p_last.at - p_last.before.current_session[1].created_at <= CODE_EXPIRY
     /\ p_last.code # p_last.before.current_session[1].code)
    => /\ Got(p_last.chan) = Some(InvalidCode)
       /\ p_state = p_last.before

\* C17: a JoinSession with the session code, handled in AwaitingJoiner more
\* than CODE_EXPIRY after the session was created, is answered Expired and
\* leaves the machine Idle: no session, no held request, no held channel.
C17_LateJoinExpiresSession ==
    (/\ p_last.cmd = "JoinSession"
     /\ AwaitingJoiner(p_last.before)
     /\ p_last.at - p_last.before.current_session[1].created_at > CODE_EXPIRY
     /\ p_last.code = p_last.before.current_session[1].code)
    => /\ Got(p_last.chan) = Some(Expired)
       /\ Idle(p_state)

\* C18: a CreateSession handled in AwaitingConfirmation sends Rejected to
\* the joiner that was waiting, and leaves the machine in AwaitingJoiner with
\* the new code, created now, and no held request.
C18_RecreateRejectsJoiner ==
    (/\ p_last.cmd = "CreateSession"
     /\ AwaitingConfirmation(p_last.before))
    => /\ Got(HeldBefore) = Some(Rejected)
       /\ p_state = [PairingState_new EXCEPT
                        !.current_session = Some(PendingSession(p_last.code, p_last.at))]

\* C19: RespondToRequest(accept = true, response) handled in
\* AwaitingConfirmation sends Accepted(response) to the joiner that was
\* waiting and leaves the machine Idle.
C19_AcceptDeliversResponse ==
    (/\ p_last.cmd = "RespondToRequest"
     /\ p_last.accepted
     /\ p_last.response # None
     /\ AwaitingConfirmation(p_last.before))
    => /\ Got(HeldBefore) = Some(Accepted(p_last.response[1]))
       /\ Idle(p_state)

C19_Witness ==
    /\ p_last.cmd = "RespondToRequest"
    /\ p_last.accepted
    /\ p_last.response # None
    /\ AwaitingConfirmation(p_last.before)
    /\ p_chan[HeldBefore].sender = "sent"

\* C20: RespondToRequest(accept = false) and CancelSession handled in
\* AwaitingConfirmation send Rejected to the joiner that was waiting and
\* leave the machine Idle; a JoinSession handled next, with the code of the
\* session that was ended, is answered InvalidCode.
EndedConfirmation(c) ==
    /\ c.cmd \in {"RespondToRequest", "CancelSession"}
    /\ c.cmd = "RespondToRequest" => ~c.accepted

C20_RejectAndCancelEndSession ==
    /\ (/\ EndedConfirmation(p_last)
        /\ AwaitingConfirmation(p_last.before))
       => /\ Got(HeldBefore) = Some(Rejected)
          /\ Idle(p_state)
    /\ (/\ p_last.cmd = "JoinSession"
        /\ p_last.prev.cmd \in {"RespondToRequest", "CancelSession"}
        /\ p_last.prev.held
        /\ p_last.code = p_last.prev.code)
       => /\ Got(p_last.chan) = Some(InvalidCode)
          /\ Idle(p_state)

C20_Witness ==
    /\ p_last.cmd = "JoinSession"
    /\ p_last.prev.cmd = "CancelSession"
    /\ p_last.prev.held
    /\ p_last.code = p_last.prev.code
    /\ p_chan[p_last.chan].sender = "sent"

\* C21: a JoinSession with the session code, handled before the session
\* expired, sends nothing: the request and the channel are held.
\* GetPendingRequest returns the held request and changes nothing.  A joiner
\* that was not answered is the held one, its request is the held request,
\* no joiner's sender is ever dropped without a value, and Accepted and
\* Rejected reach a joiner only from RespondToRequest and CancelSession.
C21_JoinerHeldUntilAnswered ==
    /\ (p_last.cmd = "JoinSession" /\ join_valid(p_last.before, p_last.code, p_last.at))
       => /\ Got(p_last.chan) = None
          /\ p_state.pending_joiner = Some(p_last.chan)
          /\ p_state.pending_request = Some(JoinerRequest(p_last.chan))
    /\ p_last.cmd = "GetPendingRequest"
       => /\ p_state = p_last.before
          /\ p_last.reply = p_state.pending_request
    /\ \A c \in DOMAIN p_chan :
          /\ p_chan[c].sender # "dropped"
          /\ p_chan[c].sender = "held"
             => /\ p_state.pending_joiner = Some(c)
                /\ p_state.pending_request = Some(JoinerRequest(c))

\* ------------------------------------------------------------------------
\* Specification SpecClock: two VectorClocks, built from VectorClock::new()
\* by set and increment, merged into one another and compared.
\* ------------------------------------------------------------------------
MaxCount == 2

ClockInit ==
    /\ MatIdle
    /\ DiffIdle
    /\ KeysIdle
    /\ ProfIdle
    /\ LogIdle

Call(op, a, b, out) == [op |-> op, a |-> a, b |-> b, out |-> out]

\* a.set(device, value) or b.set(device, value)
ClockSet(which, device, value) ==
    /\ \/ which = "a" /\ vc_a' = VectorClock_set(vc_a, device, value) /\ UNCHANGED vc_b
       \/ which = "b" /\ vc_b' = VectorClock_set(vc_b, device, value) /\ UNCHANGED vc_a
    /\ vc_last' = Call("set", vc_a, vc_b, None)
    /\ UNCHANGED <<logVars, matVars, diffVars, keyVars, profVars, flushVars, netVars,
                   pairVars, taskVars, viewVars>>

\* a.increment(device) or b.increment(device)
ClockIncrement(which, device) ==
    /\ \/ /\ which = "a"
          /\ VectorClock_get(vc_a, device) < MaxCount
          /\ vc_a' = VectorClock_increment(vc_a, device)
          /\ UNCHANGED vc_b
       \/ /\ which = "b"
          /\ VectorClock_get(vc_b, device) < MaxCount
          /\ vc_b' = VectorClock_increment(vc_b, device)
          /\ UNCHANGED vc_a
    /\ vc_last' = Call("increment", vc_a, vc_b, None)
    /\ UNCHANGED <<logVars, matVars, diffVars, keyVars, profVars, flushVars, netVars,
                   pairVars, taskVars, viewVars>>

\* a.merge(&b): a is the merged clock afterwards
ClockMerge ==
    /\ vc_a' = VectorClock_merge(vc_a, vc_b)
    /\ vc_last' = Call("merge", vc_a, vc_b, vc_a')
    /\ UNCHANGED <<vc_b, logVars, matVars, diffVars, keyVars, profVars, flushVars,
                   netVars, pairVars, taskVars, viewVars>>

\* a.compare(&b)
ClockCompare ==
    /\ vc_last' = Call("compare", vc_a, vc_b, VectorClock_compare(vc_a, vc_b))
    /\ UNCHANGED <<vc_a, vc_b, logVars, matVars, diffVars, keyVars, profVars,
                   flushVars, netVars, pairVars, taskVars, viewVars>>

ClockNext ==
    \/ \E which \in {"a", "b"}, device \in Dev, value \in 0..MaxCount :
          ClockSet(which, device, value)
    \/ \E which \in {"a", "b"}, device \in Dev : ClockIncrement(which, device)
    \/ ClockMerge
    \/ ClockCompare

SpecClock == ClockInit /\ [][ClockNext]_vars

\* C22: after a.merge(&b) the clock a is what b.merge(&a) makes of b, and
\* for every device its entry is the greater of the two entries before the
\* merge, an absent entry read as 0.
C22_MergeCommutesAndIsMax ==
    vc_last.op = "merge"
    => /\ vc_last.out = VectorClock_merge(vc_last.b, vc_last.a)
       /\ \A k \in Dev :
             VectorClock_get(vc_last.out, k)
                = Max2(VectorClock_get(vc_last.a, k), VectorClock_get(vc_last.b, k))

\* a merge of two clocks neither of which is the merged clock
C22_Witness ==
    /\ vc_last.op = "merge"
    /\ vc_last.out # vc_last.a
    /\ vc_last.out # vc_last.b
    /\ DOMAIN vc_last.a # DOMAIN vc_last.b

\* the entries of a are at most those of b, and one is smaller
PointwiseLess(a, b) ==
    /\ \A k \in Dev : VectorClock_get(a, k) <= VectorClock_get(b, k)
    /\ \E k \in Dev : VectorClock_get(a, k) < VectorClock_get(b, k)

\* C23: a.compare(&b) is Equal exactly when every device has the same entry
\* in a and b (absent read as 0), Less exactly when every entry of a is at
\* most that of b and one is smaller, Greater exactly when b.compare(&a) is
\* Less, and None (concurrent) in every other case.
C23_CompareIsPointwiseOrder ==
    vc_last.op = "compare"
    => LET a == vc_last.a
           b == vc_last.b
           out == vc_last.out
       IN  /\ out \in {Some(Equal), Some(Less), Some(Greater), None}
           /\ out = Some(Equal)
                <=> \A k \in Dev : VectorClock_get(a, k) = VectorClock_get(b, k)
           /\ out = Some(Less) <=> PointwiseLess(a, b)
           /\ out = Some(Greater) <=> VectorClock_compare(b, a) = Some(Less)

\* a compare of two clocks each ahead of the other on one device
C23_Witness ==
    /\ vc_last.op = "compare"
    /\ vc_last.out = None
    /\ \E k \in Dev : VectorClock_get(vc_last.a, k) < VectorClock_get(vc_last.b, k)
    /\ \E k \in Dev : VectorClock_get(vc_last.a, k) > VectorClock_get(vc_last.b, k)

\* C24: two clocks with disjoint key sets that each hold an entry above 0
\* compare concurrent (None) in both directions.
C24_DisjointPositiveIsConcurrent ==
    (/\ vc_last.op = "compare"
     /\ (DOMAIN vc_last.a) \cap (DOMAIN vc_last.b) = {}
     /\ \E k \in DOMAIN vc_last.a : vc_last.a[k] > 0
     /\ \E k \in DOMAIN vc_last.b : vc_last.b[k] > 0)
    => /\ vc_last.out = None
       /\ VectorClock_compare(vc_last.b, vc_last.a) = None

C24_Witness ==
    /\ vc_last.op = "compare"
    /\ DOMAIN vc_last.a = {"A"}
    /\ DOMAIN vc_last.b = {"B"}
    /\ vc_last.a["A"] > 0
    /\ vc_last.b["B"] > 0
    /\ vc_last.out = None

\* C24 as the specification states it: any two non-empty clocks with
\* disjoint key sets compare concurrent in both directions.
C24_DisjointIsConcurrent ==
    (/\ vc_last.op = "compare"
     /\ (DOMAIN vc_last.a) \cap (DOMAIN vc_last.b) = {}
     /\ DOMAIN vc_last.a # {}
     /\ DOMAIN vc_last.b # {})
    => /\ vc_last.out = None
       /\ VectorClock_compare(vc_last.b, vc_last.a) = None

\* ------------------------------------------------------------------------
\* Specification SpecLog: the EventLog of each device writes batches into its
\* own directory; files of the directory are removed and other files appear
\* in it from outside.
\* ------------------------------------------------------------------------
MaxLogNum == 3

\* write_events after the check of the event list; save_ok: EventFile::new
\* and EventFile::save return Ok
write_events_unchecked(clock_, dir, device, events, secret, uuid_, time, save_ok) ==
    LET new_clock == VectorClock_increment(clock_, device)
        envelopes == [i \in 1..Len(events) |->
                         EventEnvelope_new(uuid_ + i, time, device, new_clock, events[i])]
        counter == VectorClock_get(new_clock, device)
        event_num == next_event_number(dir, device)
        event_file == EventFile_new(device, event_num, counter, secret, envelopes)
    IN  IF save_ok
        THEN [ok |-> TRUE, clock |-> new_clock, dir |-> dir \cup {event_file},
              path |-> Some(<<device, event_num>>)]
        ELSE [ok |-> FALSE, clock |-> new_clock, dir |-> dir, path |-> None]

\* a write_events that takes the empty list as well
write_events_without_check(clock_, dir, device, events, secret, uuid_, time, save_ok) ==
    write_events_unchecked(clock_, dir, device, events, secret, uuid_, time, save_ok)

EventLog_write_events(clock_, dir, device, events, secret, uuid_, time, save_ok) ==
    IF events = <<>>
    THEN [ok |-> FALSE, clock |-> clock_, dir |-> dir, path |-> None]
    ELSE write_events_unchecked(clock_, dir, device, events, secret, uuid_, time, save_ok)

LogBatches ==
    { <<>>,
      <<HandlerSet("mailto", "urlA")>>,
      <<ExtensionAdded("ub@x", "U", None), HandlerSet("mailto", "urlA")>> }

\* the clock of a device that has merged nothing, or one event of its peer
LogInit ==
    /\ MatIdle
    /\ DiffIdle
    /\ KeysIdle
    /\ ProfIdle
    /\ disk = [d \in Dev |-> {}]
    /\ clock \in {[d \in Dev |-> VectorClock_new],
                  [d \in Dev |-> VectorClock_set(VectorClock_new, Peer(d), 1)]}
    /\ index = [d \in Dev |-> StateDb_open]
    /\ known = [d \in Dev |-> <<>>]
    /\ now = 0
    /\ uuid = 0
    /\ rebooted = [d \in Dev |-> FALSE]
    /\ last = NoOp

LogCall(op, d, ok, events, out) ==
    [op |-> op, dev |-> d, ok |-> ok, applied |-> 0, events |-> events, out |-> out,
     clock_before |-> clock, disk_before |-> disk]

\* EventLog::write_events(events, known_devices) on device d; every envelope
\* draws a uuid and reads the time before the file is saved
LogWrite(d, events, save_ok) ==
    /\ VectorClock_get(clock[d], d) < MaxLogNum
    /\ \E r \in {EventLog_write_events(clock[d], disk[d], d, events,
                    derive_group_secret(SecretOf[d], known[d]), uuid, now, save_ok)} :
          /\ clock' = [clock EXCEPT ![d] = r.clock]
          /\ disk' = [disk EXCEPT ![d] = r.dir]
          /\ last' = LogCall("write_events", d, r.ok, events, r.path)
    /\ uuid' = uuid + Len(events)
    /\ now' = IF events = <<>> THEN now ELSE now + 1
    /\ UNCHANGED <<index, known, rebooted, matVars, diffVars, keyVars,
                   profVars, flushVars, netVars, pairVars, vcVars, taskVars, viewVars>>

\* EventLog::next_event_number(device) on device d
LogNextNumber(d) ==
    /\ last' = LogCall("next_event_number", d, TRUE, <<>>,
                       Some(next_event_number(disk[d], d)))
    /\ UNCHANGED <<disk, clock, index, known, now, uuid, rebooted, matVars, diffVars,
                   keyVars, profVars, flushVars, netVars, pairVars, vcVars, taskVars, viewVars>>

\* a file of the directory of d is deleted from outside
LogRemove(d, f) ==
    /\ f \in disk[d]
    /\ disk' = [disk EXCEPT ![d] = @ \ {f}]
    /\ last' = LogCall("remove", d, TRUE, <<>>, None)
    /\ UNCHANGED <<clock, index, known, now, uuid, rebooted, matVars, diffVars,
                   keyVars, profVars, flushVars, netVars, pairVars, vcVars, taskVars, viewVars>>

\* a file that is not <number>.evt appears in the directory of d
LogOther(d) ==
    /\ disk' = [disk EXCEPT ![d] = @ \cup {OtherFile(d, "notes.txt")}]
    /\ last' = LogCall("other", d, TRUE, <<>>, None)
    /\ UNCHANGED <<clock, index, known, now, uuid, rebooted, matVars, diffVars,
                   keyVars, profVars, flushVars, netVars, pairVars, vcVars, taskVars, viewVars>>

\* the device whose EventLog is followed
LogDevices == {"A"}

LogNext ==
    \/ \E d \in LogDevices, events \in LogBatches, save_ok \in BOOLEAN :
          LogWrite(d, events, save_ok)
    \/ \E d \in LogDevices : LogNextNumber(d)
    \/ \E d \in LogDevices : \E f \in disk[d] : LogRemove(d, f)
    \/ \E d \in LogDevices : LogOther(d)

SpecLog == LogInit /\ [][LogNext]_vars

NumbersOf(dir, d) == {f.num : f \in {g \in DeviceFiles(dir, d) : Numbered(g)}}

\* C25: after a successful write_events on device d, the clock entry of d is
\* one more than before, every other entry is as before, and the file just
\* written holds one envelope per event, each with device d and with the
\* clock as it is after the increment.
C25_WriteRaisesOwnEntryByOne ==
    (last.op = "write_events" /\ last.ok)
    => LET d == last.dev
           before == last.clock_before[d]
           written == disk[d] \ last.disk_before[d]
       IN  /\ VectorClock_get(clock[d], d) = VectorClock_get(before, d) + 1
           /\ DOMAIN clock[d] = (DOMAIN before) \cup {d}
           /\ \A k \in (DOMAIN before) \ {d} : clock[d][k] = before[k]
           /\ \A e \in Dev \ {d} : clock[e] = last.clock_before[e]
           /\ Cardinality(written) = 1
           /\ \A f \in written :
                 /\ Len(f.envelopes) = Len(last.events)
                 /\ \A i \in 1..Len(f.envelopes) :
                       /\ f.envelopes[i].device = d
                       /\ f.envelopes[i].clock = clock[d]
                       /\ f.envelopes[i].event = last.events[i]

\* a successful write of two events by a device whose clock holds an entry
\* of its peer and an entry of its own
C25_Witness ==
    /\ last.op = "write_events"
    /\ last.ok
    /\ Len(last.events) = 2
    /\ DOMAIN last.clock_before[last.dev] = Dev
    /\ clock[last.dev][last.dev] = 2

\* C26: write_events with an empty event list returns an error, and the
\* clocks and the directories are as they were before the call.
C26_EmptyBatchChangesNothing ==
    (last.op = "write_events" /\ last.events = <<>>)
    => /\ ~last.ok
       /\ clock = last.clock_before
       /\ disk = last.disk_before

\* an empty list handed to a device that has written before
C26_Witness ==
    /\ last.op = "write_events"
    /\ last.events = <<>>
    /\ ~last.ok
    /\ disk[last.dev] # {}
    /\ VectorClock_get(clock[last.dev], last.dev) > 0

\* C27: next_event_number is 1 for a directory without numbered .evt file
\* and otherwise one more than the greatest number in it, whatever numbers
\* below are missing; a successful write_events writes the file of that
\* number, and next_event_number is one greater afterwards.
C27_NextNumberIsMaxPlusOne ==
    /\ last.op = "next_event_number"
       => LET nums == NumbersOf(disk[last.dev], last.dev)
              n == last.out[1]
          IN  /\ nums = {} => n = 1
              /\ nums # {} => (n - 1 \in nums /\ \A k \in nums : k < n)
    /\ (last.op = "write_events" /\ last.ok)
       => LET d == last.dev
              n == next_event_number(last.disk_before[d], d)
          IN  /\ last.out = Some(<<d, n>>)
              /\ NumbersOf(disk[d], d) = NumbersOf(last.disk_before[d], d) \cup {n}
              /\ next_event_number(disk[d], d) = n + 1

\* next_event_number on a directory that holds 0001.evt, 0003.evt and a file
\* that is not numbered
C27_Witness ==
    /\ last.op = "next_event_number"
    /\ NumbersOf(disk[last.dev], last.dev) = {1, 3}
    /\ \E f \in disk[last.dev] : ~Numbered(f)
    /\ last.out = Some(4)

\* next_event_number on a directory whose only file is not numbered
C27_OnlyOtherFile ==
    /\ last.op = "next_event_number"
    /\ disk[last.dev] # {}
    /\ NumbersOf(disk[last.dev], last.dev) = {}

\* ------------------------------------------------------------------------
\* Specification SpecSearch: search-engine events of a peer are materialised
\* one envelope at a time.
\* ------------------------------------------------------------------------
MaxSearchEvents == 4

SearchPool ==
    {SearchEngineAdded(e, n, "https://s") : e \in SearchIds, n \in {"Engine", "Renamed"}}
    \cup {SearchEngineRemoved(e) : e \in SearchIds}
    \cup {SearchEngineDefault(e) : e \in SearchIds}

\* materialize_events over one new envelope of device B
SearchApply(event) ==
    LET envelope == EventEnvelope_new(m_uuid + 1, m_uuid + 1, "B", VectorClock_new, event)
        r == materialize_events(m_db, <<envelope>>, MatDevice, m_uuid + 1, m_uuid + 1)
    IN /\ Cardinality(DOMAIN m_db.applied_events) < MaxSearchEvents
       /\ m_db' = r.db
       /\ m_applied' = r.applied
       /\ m_uuid' = r.uuid
       /\ m_last' = <<envelope>>
       /\ UNCHANGED <<m_pool, logVars, diffVars, keyVars, profVars, flushVars, netVars,
                      pairVars, vcVars, taskVars, viewVars>>

SearchNext == \E event \in SearchPool : SearchApply(event)

SpecSearch == ApplyInit /\ [][SearchNext]_vars

DefaultRows(db) == {k \in DOMAIN db.search_engines : db.search_engines[k].is_default}

\* C28: whatever SearchEngineAdded, SearchEngineRemoved and
\* SearchEngineDefault events were materialised, at most one row of
\* search_engines has the default flag.
C28_AtMostOneDefault == Cardinality(DefaultRows(m_db)) <= 1

\* two rows, one of them the default, after a SearchEngineDefault that
\* followed an earlier one
C28_Witness ==
    /\ DOMAIN m_db.search_engines = SearchIds
    /\ Cardinality(DefaultRows(m_db)) = 1
    /\ Cardinality(DOMAIN m_db.applied_events) = 4
    /\ m_last # <<>>
    /\ m_last[1].event.type = "SearchEngineDefault"

\* a SearchEngineDefault for an id without row leaves no default
C28_DefaultWithoutRow ==
    /\ m_last # <<>>
    /\ m_last[1].event.type = "SearchEngineDefault"
    /\ m_last[1].event.id \notin DOMAIN m_db.search_engines
    /\ m_db.search_engines # EmptyMap
    /\ DefaultRows(m_db) = {}

\* ------------------------------------------------------------------------
\* Specification SpecTabs: device A materialises the tab events of the
\* devices, one new envelope at a time.
\* ------------------------------------------------------------------------
MaxTabs == 3

TabPool ==
    {TabSent(to, "https://t", title) : to \in Dev, title \in {None, Some("T")}}
    \cup {TabReceived(id) : id \in TabIds}

\* materialize_events over one new envelope written by device
TabApply(event, device) ==
    LET envelope == EventEnvelope_new(m_uuid + 1, m_uuid + 1, device, VectorClock_new,
                                      event)
        r == materialize_events(m_db, <<envelope>>, MatDevice, m_uuid + 1, m_uuid + 1)
    IN /\ Cardinality(DOMAIN m_db.applied_events) < MaxTabs
       /\ m_db' = r.db
       /\ m_applied' = r.applied
       /\ m_uuid' = r.uuid
       /\ m_last' = <<envelope>>
       /\ UNCHANGED <<m_pool, logVars, diffVars, keyVars, profVars, flushVars, netVars,
                      pairVars, vcVars, taskVars, viewVars>>

TabNext == \E event \in TabPool, device \in Dev : TabApply(event, device)

SpecTabs == ApplyInit /\ [][TabNext]_vars

\* the step materialises a TabSent envelope
TabSentStep ==
    /\ m_db'.applied_events # m_db.applied_events
    /\ m_last'[1].event.type = "TabSent"

\* the rows of pending_tabs the step adds
NewTabs == (DOMAIN m_db'.pending_tabs) \ (DOMAIN m_db.pending_tabs)

\* C29: a step that materialises a TabSent addressed to another device
\* leaves pending_tabs as it was; one that materialises a TabSent addressed
\* to this device keeps the rows there were and adds exactly one row, with
\* the url and the title of the event.
C29_TabSentOnlyForThisDevice ==
    [][TabSentStep
       => IF m_last'[1].event.to_device # MatDevice
          THEN m_db'.pending_tabs = m_db.pending_tabs
          ELSE /\ Cardinality(NewTabs) = 1
               /\ \A k \in DOMAIN m_db.pending_tabs :
                     /\ k \in DOMAIN m_db'.pending_tabs
                     /\ m_db'.pending_tabs[k] = m_db.pending_tabs[k]
               /\ \A k \in NewTabs :
                     /\ m_db'.pending_tabs[k].url = m_last'[1].event.url[1]
                     /\ m_db'.pending_tabs[k].title = m_last'[1].event.title]_vars

\* two tabs for this device are pending, and the last TabSent materialised
\* was addressed to another device
C29_Witness ==
    /\ Cardinality(DOMAIN m_db.pending_tabs) = 2
    /\ Cardinality(DOMAIN m_db.applied_events) = 3
    /\ m_last[1].event.type = "TabSent"
    /\ m_last[1].event.to_device # MatDevice

\* C30: the row of pending_tabs that a step adds for a TabSent envelope has
\* the device of the envelope, the sender, as its sent_by.
C30_PendingTabNamesSender ==
    [][TabSentStep
       => \A k \in NewTabs : m_db'.pending_tabs[k].sent_by = m_last'[1].device]_vars

\* ------------------------------------------------------------------------
\* Specification SpecStep: the loop body of materialize_events statement by
\* statement.  The connection is in autocommit mode (no transaction is
\* opened anywhere), so every statement is durable as soon as it returns;
\* the process can stop, or mark_event_applied can fail, between the two.
\* m_last holds the envelope whose apply_event has returned and whose
\* mark_event_applied has not run yet.
\* ------------------------------------------------------------------------
MaxStepEvents == 2

\* uuids drawn in all, by envelopes and by pending_tabs rows
MaxStepUuids == 4

StepPool ==
    {TabSent("A", "https://t", title) : title \in {None, Some("T")}}
    \cup {HandlerSet("mailto", h) : h \in HandlerUrls}

\* a new envelope arrives in the sync directory
StepArrive(event) ==
    /\ Len(m_pool) < MaxStepEvents
    /\ m_pool' = Append(m_pool,
                        EventEnvelope_new(m_uuid + 1, Len(m_pool) + 1, "B",
                                          VectorClock_new, event))
    /\ m_uuid' = m_uuid + 1
    /\ UNCHANGED <<m_db, m_last, m_applied, logVars, diffVars, keyVars, profVars,
                   flushVars, netVars, pairVars, vcVars, taskVars, viewVars>>

\* is_event_applied returns false and apply_event returns Ok
StepApply(i) ==
    /\ m_last = <<>>
    /\ m_uuid < MaxStepUuids
    /\ i \in DOMAIN m_pool
    /\ ~is_event_applied(m_db, m_pool[i].id)
    /\ m_db' = apply_event(m_db, m_pool[i].event, MatDevice, m_uuid + 1,
                           m_pool[i].timestamp)
    /\ m_uuid' = IF draws_uuid(m_pool[i].event, MatDevice) THEN m_uuid + 1 ELSE m_uuid
    /\ m_last' = <<m_pool[i]>>
    /\ UNCHANGED <<m_pool, m_applied, logVars, diffVars, keyVars, profVars, flushVars,
                   netVars, pairVars, vcVars, taskVars, viewVars>>

\* mark_event_applied returns Ok; applied += 1
StepMark ==
    /\ m_last # <<>>
    /\ m_db' = mark_event_applied(m_db, m_last[1].id, m_last[1].device,
                                  m_last[1].timestamp)
    /\ m_applied' = m_applied + 1
    /\ m_last' = <<>>
    /\ UNCHANGED <<m_pool, m_uuid, logVars, diffVars, keyVars, profVars, flushVars,
                   netVars, pairVars, vcVars, taskVars, viewVars>>

\* mark_event_applied returns Err (the ? leaves materialize_events), or the
\* process stops before it runs
StepFail ==
    /\ m_last # <<>>
    /\ m_last' = <<>>
    /\ m_applied' = 0
    /\ UNCHANGED <<m_db, m_pool, m_uuid, logVars, diffVars, keyVars, profVars,
                   flushVars, netVars, pairVars, vcVars, taskVars, viewVars>>

StepNext ==
    \/ \E event \in StepPool : StepArrive(event)
    \/ \E i \in 1..MaxStepEvents : StepApply(i)
    \/ StepMark
    \/ StepFail

SpecStep == MatInit /\ [][StepNext]_vars

\* the pending_tabs row of the TabSent of an envelope is in the index (the
\* row carries the time of the pass, which is the envelope's here)
EffectPresent(db, envelope) ==
    \E k \in DOMAIN db.pending_tabs : db.pending_tabs[k].sent_at = envelope.timestamp

\* C31: no TabSent envelope has its row in pending_tabs while its id is not
\* in applied_events.
C31_EffectOnlyWithAppliedId ==
    \A i \in DOMAIN m_pool :
        (m_pool[i].event.type = "TabSent" /\ EffectPresent(m_db, m_pool[i]))
        => is_event_applied(m_db, m_pool[i].id)

\* C31, the consequence: one TabSent envelope never has two rows in
\* pending_tabs.
C31_TabAppliedOnce ==
    \A i \in DOMAIN m_pool :
        Cardinality({k \in DOMAIN m_db.pending_tabs :
                        m_db.pending_tabs[k].sent_at = m_pool[i].timestamp}) <= 1

\* ------------------------------------------------------------------------
\* Further properties of SpecFlush
\* ------------------------------------------------------------------------
OfKind(pending, kind) == SelectSeq(pending, LAMBDA w : w.kind = kind)

NotOfKind(pending, kind) == SelectSeq(pending, LAMBDA w : w.kind # kind)

\* C32: the queue never holds two items of one kind; after a queue_containers,
\* queue_handlers or queue_prefs call the queue holds one item of that kind,
\* the snapshot just handed in, behind the items of the other kinds, which
\* are as they were.
C32_OneItemPerKind ==
    /\ \A i, j \in DOMAIN queue : i # j => queue[i].kind # queue[j].kind
    /\ flushed.op = "queue"
       => LET w == flushed.applied[1]
          IN  /\ OfKind(queue, w.kind) = <<w>>
              /\ queue[Len(queue)] = w
              /\ NotOfKind(queue, w.kind) = NotOfKind(flushed.before, w.kind)

\* a snapshot was queued while another snapshot of its kind was in the queue,
\* ahead of an item of another kind
C32_Witness ==
    /\ flushed.op = "queue"
    /\ \E i \in DOMAIN flushed.before :
          /\ i < Len(flushed.before)
          /\ flushed.before[i].kind = flushed.applied[1].kind
          /\ flushed.before[i].data # flushed.applied[1].data

\* the file of the item's kind holds what writing the item gives
Written(p, w) ==
    CASE w.kind = "Containers" -> p = write_containers(p, w.data)
      [] w.kind = "Handlers" -> p = write_handlers(p, w.data)
      [] OTHER -> p = write_user_js(p, w.data)

\* C33: after a flush() that succeeded the queue is empty, the names
\* returned are the artifacts of the queued items in the order the items had
\* in the queue, and each item is written to its file.
C33_FlushInInsertionOrder ==
    (flushed.op = "flush" /\ flushed.ok)
    => /\ queue = <<>>
       /\ flushed.applied = [i \in DOMAIN flushed.before |->
                                artifact(flushed.before[i].kind)]
       /\ \A i \in DOMAIN flushed.before : Written(profile, flushed.before[i])

\* a successful flush of three items, prefs queued first and containers last
C33_Witness ==
    /\ flushed.op = "flush"
    /\ flushed.ok
    /\ Len(flushed.before) = 3
    /\ flushed.before[1].kind = "Prefs"
    /\ flushed.before[3].kind = "Containers"
    /\ flushed.applied = <<UserJs, HandlersJson, ContainersJson>>

\* ------------------------------------------------------------------------
\* Specification SpecSave: save_vector_clock statement by statement.  Every
\* statement is committed when it returns (autocommit); the process can stop,
\* or an INSERT can fail, after any of them.  vc_a is the clock of the
\* EventLog, m_db.vector_clock the table; vc_last holds the clock being
\* saved (a), the table before the save (b) and the devices whose INSERT is
\* still to come (out).
\* ------------------------------------------------------------------------
MaxSaveCount == 2

\* the clock of the EventLog advances (write_events, process_incoming)
SaveAdvance(device) ==
    /\ vc_last.op # "saving"
    /\ VectorClock_get(vc_a, device) < MaxSaveCount
    /\ vc_a' = VectorClock_increment(vc_a, device)
    /\ UNCHANGED <<vc_b, vc_last, logVars, matVars, diffVars, keyVars, profVars,
                   flushVars, netVars, pairVars, taskVars, viewVars>>

\* save_vector_clock(&clock): DELETE FROM vector_clock
SaveDelete ==
    /\ vc_last.op # "saving"
    /\ m_db' = [m_db EXCEPT !.vector_clock = EmptyMap]
    /\ vc_last' = [op |-> IF DOMAIN vc_a = {} THEN "saved" ELSE "saving",
                   a |-> vc_a, b |-> m_db.vector_clock, out |-> DOMAIN vc_a]
    /\ UNCHANGED <<vc_a, vc_b, m_pool, m_last, m_applied, m_uuid, logVars, diffVars,
                   keyVars, profVars, flushVars, netVars, pairVars, taskVars, viewVars>>

\* the INSERT of one entry; clock.entries() yields them in any order
SaveInsert(device) ==
    /\ vc_last.op = "saving"
    /\ device \in vc_last.out
    /\ m_db' = [m_db EXCEPT !.vector_clock = Upsert(@, device, vc_last.a[device])]
    /\ vc_last' = [vc_last EXCEPT !.out = @ \ {device},
                                  !.op = IF vc_last.out = {device} THEN "saved"
                                         ELSE "saving"]
    /\ UNCHANGED <<vc_a, vc_b, m_pool, m_last, m_applied, m_uuid, logVars, diffVars,
                   keyVars, profVars, flushVars, netVars, pairVars, taskVars, viewVars>>

\* the process stops inside save_vector_clock, or a statement returns Err;
\* the daemon starts again with EventLog::new
SaveInterrupt ==
    /\ vc_last.op = "saving"
    /\ vc_last' = [vc_last EXCEPT !.op = "interrupted"]
    /\ vc_a' = VectorClock_new
    /\ UNCHANGED <<vc_b, logVars, matVars, diffVars, keyVars, profVars, flushVars,
                   netVars, pairVars, taskVars, viewVars>>

SaveNext ==
    \/ \E device \in Dev : SaveAdvance(device)
    \/ SaveDelete
    \/ \E device \in Dev : SaveInsert(device)
    \/ SaveInterrupt

SpecSave == MatInit /\ [][SaveNext]_vars

\* C34: the table holds the clock of the last completed save, and while a
\* save is running or after it was interrupted it holds either the clock
\* that was stored before or the clock being saved, never anything else.
C34_ClockSavedWhole ==
    /\ vc_last.op = "saved" => load_vector_clock(m_db) = vc_last.a
    /\ vc_last.op \in {"saving", "interrupted"}
       => load_vector_clock(m_db) \in {vc_last.a, vc_last.b}

\* C34, first half only: a save that ran to its end leaves exactly the saved
\* clock in the table.
C34_CompletedSaveReplaces ==
    vc_last.op = "saved" => load_vector_clock(m_db) = vc_last.a

\* ------------------------------------------------------------------------
\* Specification SpecChan: the swarm task (run_swarm) and the daemon loop
\* (run_event_loop) with their two bounded channels.  Each task is either at
\* its select! or suspended in a send(..).await of a handler; a send
\* completes when the channel has room.
\* ------------------------------------------------------------------------
\* mpsc::channel(100) for both channels, scaled down
ChannelCapacity == 2

\* the inbound requests the swarm yields at most
MaxChanRequests == 6

\* run_swarm at select!: the swarm yields an inbound GetClock request;
\* handle_get_clock starts event_tx.send(ClockRequested)
SwarmRequest ==
    /\ t_swarm = None
    /\ t_seen < MaxChanRequests
    /\ t_seen' = t_seen + 1
    /\ t_swarm' = Some(network_event([type |-> "GetClock"], t_seen + 1))
    /\ UNCHANGED <<t_daemon, logVars, matVars, diffVars, keyVars, profVars,
                   flushVars, netVars, pairVars, vcVars, viewVars>>

\* event_tx.send(..).await completes; run_swarm is back at select!
SwarmSent ==
    /\ t_swarm # None
    /\ Len(n_events) < ChannelCapacity
    /\ n_events' = Append(n_events, t_swarm[1])
    /\ t_swarm' = None
    /\ UNCHANGED <<t_daemon, t_seen, n_inbound, n_commands, logVars, matVars,
                   diffVars, keyVars, profVars, flushVars, pairVars, vcVars, viewVars>>

\* run_swarm at select!: command_rx.recv() yields a command; handle_command
\* sends no NetworkEvent
SwarmCommand ==
    /\ t_swarm = None
    /\ n_commands # <<>>
    /\ n_commands' = Tail(n_commands)
    /\ UNCHANGED <<t_swarm, t_daemon, t_seen, n_inbound, n_events, logVars, matVars,
                   diffVars, keyVars, profVars, flushVars, pairVars, vcVars, viewVars>>

\* run_event_loop at select!: next_event() yields ClockRequested;
\* handle_clock_request starts send_command(RespondClock)
DaemonEvent ==
    /\ t_daemon = None
    /\ n_events # <<>>
    /\ n_events' = Tail(n_events)
    /\ t_daemon' = Some([type |-> "RespondClock",
                         request_id |-> Head(n_events).request_id,
                         clock |-> clock[SyncDevice]])
    /\ UNCHANGED <<t_swarm, t_seen, n_inbound, n_commands, logVars, matVars,
                   diffVars, keyVars, profVars, flushVars, pairVars, vcVars, viewVars>>

\* run_event_loop at select!: sync_interval ticks; handle_periodic_sync
\* starts get_clock(peer) for the one peer
DaemonTick ==
    /\ t_daemon = None
    /\ t_daemon' = Some([type |-> "GetClock", request_id |-> 0, clock |-> EmptyMap])
    /\ UNCHANGED <<t_swarm, t_seen, logVars, matVars, diffVars, keyVars, profVars,
                   flushVars, netVars, pairVars, vcVars, viewVars>>

\* command_tx.send(..).await completes; run_event_loop is back at select!
DaemonSent ==
    /\ t_daemon # None
    /\ Len(n_commands) < ChannelCapacity
    /\ n_commands' = Append(n_commands, t_daemon[1])
    /\ t_daemon' = None
    /\ UNCHANGED <<t_swarm, t_seen, n_inbound, n_events, logVars, matVars, diffVars,
                   keyVars, profVars, flushVars, pairVars, vcVars, viewVars>>

ChanNext ==
    \/ SwarmRequest
    \/ SwarmSent
    \/ SwarmCommand
    \/ DaemonEvent
    \/ DaemonTick
    \/ DaemonSent

SpecChan == SyncInit /\ [][ChanNext]_vars

\* the swarm task is suspended sending to the full event channel
SwarmBlocked == t_swarm # None /\ Len(n_events) = ChannelCapacity

\* the daemon loop is suspended sending to the full command channel
DaemonBlocked == t_daemon # None /\ Len(n_commands) = ChannelCapacity

\* C35: the swarm task and the daemon loop are never both suspended in a
\* send to a full channel.
C35_NoMutualBlock == ~(SwarmBlocked /\ DaemonBlocked)

\* ------------------------------------------------------------------------
\* Specification SpecQuiet: device A runs sync() cycles with no browser and
\* no change to the profile from outside; device B writes at most
\* MaxQuietRemote batches, which reach the sync directory of A.
\* ------------------------------------------------------------------------
MaxQuietRemote == 2

\* the event files device A writes at most
MaxQuietOwn == 4

QuietBatches ==
    { <<ExtensionInstalled("ub@x", "U", "1.0", "amo", "xpi1")>>,
      <<ExtensionUninstalled("ub@x")>>,
      <<ContainerAdded("1", "Work", "blue", "briefcase")>>,
      <<ContainerRemoved("1")>>,
      <<HandlerSet("mailto", "urlB")>>,
      <<ContainerAdded("1", "Work", "blue", "briefcase"), HandlerSet("mailto", "urlB")>> }

QuietRemote(events) == remote_write(events, MaxQuietRemote)

\* what decides the cycles to come: the profile, the tables of the index,
\* the events of the sync directory that are not applied yet, and how many
\* files the peer has written
CycleView ==
    [profile |-> profile,
     tables |-> [index[SyncDevice] EXCEPT !.applied_events = EmptyMap,
                                          !.vector_clock = EmptyMap],
     pending |-> {e.event : e \in {x \in Envelopes(disk[SyncDevice]) :
                                      ~is_event_applied(index[SyncDevice], x.id)}},
     remote |-> Cardinality(disk[Peer(SyncDevice)])]

\* a cycle; q_views records the view a cycle that applied or wrote events
\* has left
QuietSync(dirs) ==
    /\ sync(dirs, MaxQuietOwn)
    /\ q_views' = IF cycle'.incoming > 0 \/ cycle'.outbound > 0
                  THEN Append(q_views, CycleView')
                  ELSE q_views

\* the profile as the user left it before the first cycle of the engine
QuietProfiles(p) ==
    { [p EXCEPT !.handlers = Some([k \in {"mailto"} |-> "urlA"])],
      [p EXCEPT !.containers = Some(<<Container(2, "Home", "tree", "red")>>)] }

QuietProfile(p) ==
    /\ cycle.op = "none"
    /\ profile.handlers = None /\ profile.containers = None
    /\ profile' = p
    /\ UNCHANGED <<queue, cycle, logVars, matVars, diffVars, keyVars, flushVars, netVars, pairVars, vcVars, taskVars, viewVars>>

QuietNext ==
    \/ \E p \in QuietProfiles(profile) : QuietProfile(p)
    \/ \E events \in QuietBatches : QuietRemote(events)
    \/ \E dirs \in DirOrders(disk[SyncDevice]) : QuietSync(dirs)

SpecQuiet == SyncInit /\ [][QuietNext]_vars

\* the envelopes of the files of device d in the sync directory of A
EnvelopesOf(dir, d) ==
    UNION {Range(f.envelopes) : f \in DeviceFiles(dir, d)}

\* the envelopes of the peer that the step materialises
AppliedNow ==
    {e \in EnvelopesOf(disk[SyncDevice], Peer(SyncDevice)) :
        /\ e.id \notin DOMAIN index[SyncDevice].applied_events
        /\ e.id \in DOMAIN index'[SyncDevice].applied_events}

\* the envelopes that the step writes
WrittenNow ==
    EnvelopesOf(disk'[SyncDevice], SyncDevice) \ EnvelopesOf(disk[SyncDevice], SyncDevice)

\* event w undoes event a
Reverses(w, a) ==
    /\ w.id = a.id
    /\ \/ a.type \in {"ContainerAdded", "ContainerUpdated"} /\ w.type = "ContainerRemoved"
       \/ a.type = "HandlerSet" /\ w.type = "HandlerRemoved"
       \/ a.type = "ContainerRemoved" /\ w.type = "ContainerAdded"

C37_NoCycleRecurs ==
    \A i, j \in DOMAIN q_views : q_views[i] = q_views[j] => i = j

\* C38: every JoinSession gets exactly one PairingResult: no command
\* discards the sender of a held reply channel without a value, and a
\* channel that has its result keeps it.
C38_OneResultPerJoin ==
    [][\A c \in DOMAIN p_chan :
          /\ p_chan[c].sender = "held" => p_chan'[c].sender \in {"held", "sent"}
          /\ p_chan[c].sender = "sent" => p_chan'[c] = p_chan[c]]_vars

\* C39: within one run of the engine (no restart) no entry of its clock
\* ever decreases, across write_events and process_incoming.
C39_ClockNeverDecreases ==
    [][\/ \E d \in Dev : Restart(d)
       \/ \A d \in Dev : \A k \in DOMAIN clock[d] :
             VectorClock_get(clock'[d], k) >= clock[d][k]]_vars

\* a process_incoming of a device that had written before has merged the
\* clocks of a peer's events into its clock
C39_Witness ==
    /\ last.op = "process_incoming" /\ last.ok /\ last.applied > 0
    /\ ~rebooted[last.dev]
    /\ VectorClock_get(clock[last.dev], last.dev) > 0
    /\ VectorClock_get(clock[last.dev], Peer(last.dev)) > 0

\* an ExtensionUninstalled(id) event is materialised in the index of A
UninstallApplied(id) ==
    \E e \in Envelopes(disk[SyncDevice]) :
        /\ e.event.type = "ExtensionUninstalled"
        /\ e.event.id = id
        /\ is_event_applied(index[SyncDevice], e.id)

\* C40: after a sync() cycle that ran without the browser lock, an extension
\* whose ExtensionUninstalled event is materialised and that the index no
\* longer lists has no file extensions/<id>.xpi in the profile and no row
\* in extension_xpi.
C40_UninstalledPackageIsGone ==
    (cycle.op = "sync" /\ ~cycle.locked)
    => \A id \in ExtIds :
          (UninstallApplied(id) /\ id \notin DOMAIN index[SyncDevice].extensions)
          => /\ id \notin DOMAIN profile.xpi
             /\ id \notin DOMAIN index[SyncDevice].extension_xpi

====
